---- MODULE Spec2Model ----
(***************************************************************************)
(* Verification model of the confidential-balance core of the Aptos TS SDK *)
(* (veiled coin): Twisted ElGamal over Ristretto255, the single-ciphertext *)
(* sigma proofs and the chunked VeiledTransfer builder.                    *)
(*                                                                         *)
(* The Ristretto255 group is a cyclic group of prime order n.  It is       *)
(* modelled as the additive group Z_n for a small prime n: a point is its  *)
(* discrete logarithm with respect to BASE.  Scalars are integers; the     *)
(* library's scalar multiplication accepts only 1 <= k < n and throws      *)
(* otherwise (this is why the source special-cases the amount 0).          *)
(***************************************************************************)
EXTENDS Integers, Sequences, FiniteSets, TLC

VARIABLES
    key,    \* the TwistedElGamal instance's privateKey (a scalar)
    x,      \* a ciphertext object held by the caller: [C, D]
    xm,     \* ghost: the amount x was made from
    xr,     \* ghost: the reduced randomness x was made from
    call,   \* the call in progress: operation and arguments
    ret,    \* what that call returned or threw
    oracle, \* the Fiat-Shamir hash, as the set of queries answered so far
    vt,     \* the VeiledTransfer object: its fields, and which are assigned
    chain,  \* the ledger as the VeiledCoin API sees it: balance, freeze flag, transactions
    proc    \* the safeRotateVBKey call in progress: its position and locals

vars == <<key, x, xm, xr, call, ret, oracle, vt, chain, proc>>

-----------------------------------------------------------------------------
(* Bounds of the model *)

\* the group order is the least prime >= MinOrder
MinOrder == 7
\* width of a balance chunk in bits (32 in the program)
ChunkBitsBound == 2
\* decryption windows start at 0..MaxStart
MaxStart == 3
\* decryption keys are the scalars 1..MaxKey
MaxKey == 3
\* the second operand of a ciphertext operation is made with randomness 1..MaxRand
MaxRand == 2
\* the balance a sigma proof is about is one of 0..MaxBalance
MaxBalance == 2

\* proofs on the wire carry the X7 points of at most this many auditors
MaxWireAuditors == 2

\* byte strings on the wire are filled in this many ways
MaxSeed == 3

-----------------------------------------------------------------------------
(* Ristretto255, as Z_n *)

IsPrime(p) == p > 1 /\ \A d \in 2..(p - 1) : p % d # 0

\* ed25519.CURVE.n, the order of the group and of the scalar field
CURVE_n ==
    CHOOSE p \in MinOrder..(2 * MinOrder) :
        IsPrime(p) /\ \A q \in MinOrder..(p - 1) : ~IsPrime(q)

Point == 0..(CURVE_n - 1)

\* the value of an expression whose evaluation threw
Thrown == CURVE_n

IsPoint(P) == P \in Point

\* RistrettoPoint.ZERO, the identity
ZERO == 0

\* RistrettoPoint.BASE, the generator G
BASE == 1

\* H_RISTRETTO, the second generator H
H_RISTRETTO == 3

\* mod(a, b) of @noble/curves: the non-negative remainder
mod(a, b) == a % b

\* RistrettoPoint.fromHex: decodes a canonical encoding, throws on any other
fromHex(b) == IF b \in Point THEN b ELSE Thrown

\* point.toRawBytes(): the canonical encoding
toRawBytes(P) == P

\* point.add(other)
add(P, Q) == IF IsPoint(P) /\ IsPoint(Q) THEN (P + Q) % CURVE_n ELSE Thrown

\* point.subtract(other)
subtract(P, Q) == IF IsPoint(P) /\ IsPoint(Q) THEN (P - Q) % CURVE_n ELSE Thrown

\* point.multiply(scalar): requires 1 <= scalar < n
multiply(P, k) ==
    IF IsPoint(P) /\ k \in 1..(CURVE_n - 1) THEN (P * k) % CURVE_n ELSE Thrown

\* point.equals(other)
equals(P, Q) == P = Q

\* modular inverse in the scalar field
invertN(a) ==
    IF a % CURVE_n = 0 THEN 0
    ELSE CHOOSE i \in 1..(CURVE_n - 1) : (i * a) % CURVE_n = 1

\* TwistedEd25519PrivateKey.publicKey(): P = (1/s) * H
publicKey(s) == toRawBytes(multiply(H_RISTRETTO, invertN(s)))

-----------------------------------------------------------------------------
(* Results of calls *)

NoError == "none"

\* a call that returned a ciphertext
RetCiphertext(C, D) == [err |-> NoError, C |-> C, D |-> D, val |-> 0, cmps |-> 0]

\* a call that returned an amount after cmps point comparisons
RetAmount(v, n) == [err |-> NoError, C |-> 0, D |-> 0, val |-> v, cmps |-> n]

\* a call that threw
RetError(e, n) == [err |-> e, C |-> 0, D |-> 0, val |-> 0, cmps |-> n]

-----------------------------------------------------------------------------
(* Twisted ElGamal *)

\* new TwistedElGamalCiphertext(C, D): decodes both points
TwistedElGamalCiphertext(C, D) ==
    IF IsPoint(fromHex(C)) /\ IsPoint(fromHex(D))
    THEN RetCiphertext(fromHex(C), fromHex(D))
    ELSE RetError("NobleError", 0)

EncryptReducingAmount(amount, pk, random) ==
    LET r == mod(random, CURVE_n)
        rH == multiply(H_RISTRETTO, r)
        mG == IF mod(amount, CURVE_n) = 0 THEN ZERO
              ELSE multiply(BASE, mod(amount, CURVE_n))
        D == multiply(fromHex(pk), r)
        C == add(mG, rH)
    IN  TwistedElGamalCiphertext(toRawBytes(C), toRawBytes(D))

EncryptUntwisted(amount, pk, random) ==
    LET r == mod(random, CURVE_n)
        rH == multiply(fromHex(pk), r)
        mG == IF amount = 0 THEN ZERO ELSE multiply(BASE, amount)
        D == multiply(H_RISTRETTO, r)
        C == add(mG, rH)
    IN  TwistedElGamalCiphertext(toRawBytes(C), toRawBytes(D))

\* TwistedElGamal.encryptWithPK(amount, publicKey, random)
encryptWithPK(amount, pk, random) ==
    IF amount < 0 /\ amount >= CURVE_n
    THEN RetError("AmountRange", 0)
    ELSE LET r == mod(random, CURVE_n)
             rH == multiply(H_RISTRETTO, r)
             mG == IF amount = 0 THEN ZERO ELSE multiply(BASE, amount)
             D == multiply(fromHex(pk), r)
             C == add(mG, rH)
         IN  TwistedElGamalCiphertext(toRawBytes(C), toRawBytes(D))

\* a DecryptionRange {start?, end?}
Range(lo, hi) == [hasStart |-> TRUE, start |-> lo, hasEnd |-> TRUE, end |-> hi]
NoRange == [hasStart |-> FALSE, start |-> 0, hasEnd |-> FALSE, end |-> 0]

\* the while loop of decryptWithPK: amount is the candidate, searchablePoint
\* its multiple of BASE, n the number of comparisons made so far
RECURSIVE search(_, _, _, _, _)
search(mH, amount, searchablePoint, endAmount, n) ==
    IF equals(mH, searchablePoint) THEN RetAmount(amount, n + 1)
    ELSE IF amount >= endAmount THEN RetError("DecryptRange", n + 1)
    ELSE search(mH, amount + 1, add(searchablePoint, BASE), endAmount, n + 1)

\* TwistedElGamal.decryptWithPK(ciphertext, privateKey, decryptionRange)
decryptWithPK(ciphertext, privateKey, decryptionRange) ==
    LET modS == mod(privateKey, CURVE_n)
        sD == multiply(fromHex(toRawBytes(ciphertext.D)), modS)
        mH == subtract(fromHex(toRawBytes(ciphertext.C)), sD)
        start == IF decryptionRange.hasStart THEN decryptionRange.start ELSE 0
        endAmount == IF decryptionRange.hasEnd THEN decryptionRange.end ELSE CURVE_n
    IN  IF ~IsPoint(mH) THEN RetError("NobleError", 0)
        ELSE IF start = 0 /\ equals(mH, ZERO) THEN RetAmount(0, 1)
        ELSE LET amount == IF start = 0 THEN 1 ELSE start
                 n == IF start = 0 THEN 1 ELSE 0
             IN  IF ~IsPoint(multiply(BASE, amount)) THEN RetError("NobleError", n)
                 ELSE search(mH, amount, multiply(BASE, amount), endAmount, n)

\* TwistedElGamalCiphertext.addAmount(amount)
addAmount(ct, amount) ==
    LET aG == multiply(BASE, amount)
        updatedC == add(ct.C, aG)
    IN  TwistedElGamalCiphertext(toRawBytes(updatedC), toRawBytes(ct.D))

\* TwistedElGamalCiphertext.subtractAmount(amount)
subtractAmount(ct, amount) ==
    LET aG == multiply(BASE, amount)
        updatedC == subtract(ct.C, aG)
    IN  TwistedElGamalCiphertext(toRawBytes(updatedC), toRawBytes(ct.D))

AddCiphertextDroppingD(ct, ciphertext) ==
    LET updatedC == add(ct.C, ciphertext.C)
    IN  TwistedElGamalCiphertext(toRawBytes(updatedC), toRawBytes(ct.D))

\* TwistedElGamalCiphertext.addCiphertext(ciphertext)
addCiphertext(ct, ciphertext) ==
    LET updatedC == add(ct.C, ciphertext.C)
        updatedD == add(ct.D, ciphertext.D)
    IN  TwistedElGamalCiphertext(toRawBytes(updatedC), toRawBytes(updatedD))

\* TwistedElGamalCiphertext.subtractCiphertext(ciphertext)
subtractCiphertext(ct, ciphertext) ==
    LET updatedC == subtract(ct.C, ciphertext.C)
        updatedD == subtract(ct.D, ciphertext.D)
    IN  TwistedElGamalCiphertext(toRawBytes(updatedC), toRawBytes(updatedD))

\* TwistedElGamal.modifyCiphertextByAmount(ciphertext, operation, amount)
modifyCiphertextByAmount(ciphertext, operation, amount) ==
    IF operation = "add" THEN addAmount(ciphertext, amount)
    ELSE IF operation = "subtract" THEN subtractAmount(ciphertext, amount)
    ELSE RetError("Unsupported", 0)

\* TwistedElGamal.modifyCiphertextByCiphertext(operand1, operation, operand2)
modifyCiphertextByCiphertext(operand1, operation, operand2) ==
    IF operation = "add" THEN addCiphertext(operand1, operand2)
    ELSE IF operation = "subtract" THEN subtractCiphertext(operand1, operand2)
    ELSE RetError("Unsupported", 0)

-----------------------------------------------------------------------------
(* The ElGamal API as a state machine: a caller holds a key and a          *)
(* ciphertext x and calls the operations on them.                          *)

\* decryption keys: non-zero scalars
Keys == 1..MaxKey

\* amounts handed to encryptWithPK: the scalar field and values outside it
Amounts == (0 - 2)..(CURVE_n + 1)

\* the integers 32 random bytes can decode to, before reduction mod n
Randoms == 0..CURVE_n

\* the chunk window [0, 2^32)
ChunkEnd == 2 ^ ChunkBitsBound

Operations == {"add", "subtract", "multiply"}

Call(op, m, r, k, lo, hi, other) ==
    [op |-> op, m |-> m, r |-> r, k |-> k, lo |-> lo, hi |-> hi, other |-> other]

\* no VeiledTransfer has been constructed
NoObject == [assigned |-> {}]
\* outside the VeiledCoin API model there is no ledger and no API call
NoChain == [txs |-> <<>>]
NoCall == [pc |-> "none"]

NoCiphertext == [C |-> 0, D |-> 0]

\* no call is in progress: the caller holds key and x
Idle == call.op = "idle"

Ciphertext(r) == [C |-> r.C, D |-> r.D]

Init ==
    /\ key \in Keys
    /\ x = Ciphertext(encryptWithPK(0, publicKey(key), 1))
    /\ xm = 0
    /\ xr = 1
    /\ call = Call("idle", 0, 0, 0, 0, 0, NoCiphertext)
    /\ ret = RetAmount(0, 0)
    /\ oracle = {}
    /\ vt = NoObject
    /\ chain = NoChain
    /\ proc = NoCall

\* x = TwistedElGamal.encryptWithPK(m, publicKey, random)
Encrypt ==
    /\ Idle
    /\ \E m \in Amounts, random \in Randoms :
          LET res == encryptWithPK(m, publicKey(key), random)
          IN  /\ call' = Call("encrypt", m, random, key, 0, 0, x)
              /\ ret' = res
              /\ x' = IF res.err = NoError THEN Ciphertext(res) ELSE x
              /\ xm' = IF res.err = NoError THEN m ELSE xm
              /\ xr' = IF res.err = NoError THEN mod(random, CURVE_n) ELSE xr
    /\ UNCHANGED <<chain, proc, key, oracle, vt>>

\* TwistedElGamal.decryptWithPK(x, k, {start: lo, end: hi})
Decrypt ==
    /\ Idle
    /\ \E k \in Keys, lo \in 0..MaxStart, hi \in 0..(ChunkEnd + 1) :
          /\ call' = Call("decrypt", xm, xr, k, lo, hi, x)
          /\ ret' = decryptWithPK(x, k, Range(lo, hi))
    /\ UNCHANGED <<chain, proc, key, x, xm, xr, oracle, vt>>

\* TwistedElGamal.decryptWithPK(x, k) with no range
DecryptDefault ==
    /\ Idle
    /\ \E k \in Keys :
          /\ call' = Call("decryptDefault", xm, xr, k, 0, CURVE_n, x)
          /\ ret' = decryptWithPK(x, k, NoRange)
    /\ UNCHANGED <<chain, proc, key, x, xm, xr, oracle, vt>>

\* TwistedElGamal.modifyCiphertextByAmount(x, operation, a)
ModifyByAmount ==
    /\ Idle
    /\ \E operation \in Operations, a \in Amounts :
          /\ call' = Call(operation, a, 0, key, 0, 0, x)
          /\ ret' = modifyCiphertextByAmount(x, operation, a)
    /\ UNCHANGED <<chain, proc, key, x, xm, xr, oracle, vt>>

\* TwistedElGamal.modifyCiphertextByCiphertext(x, operation, y), y a ciphertext
\* of m2 under the same key
ModifyByCiphertext ==
    /\ Idle
    /\ \E operation \in Operations, m2 \in 0..ChunkEnd, r2 \in 1..MaxRand :
          LET y == encryptWithPK(m2, publicKey(key), r2)
          IN  /\ y.err = NoError
              /\ call' = Call(operation \o "Ciphertext", m2, r2, key, 0, 0,
                              Ciphertext(y))
              /\ ret' = modifyCiphertextByCiphertext(x, operation, Ciphertext(y))
    /\ UNCHANGED <<chain, proc, key, x, xm, xr, oracle, vt>>

\* the call has returned or thrown; the caller goes on with key and x.  The
\* next exchange is independent of this one: its hash queries are new
Resume ==
    /\ ~Idle
    /\ call' = Call("idle", 0, 0, 0, 0, 0, NoCiphertext)
    /\ ret' = RetAmount(0, 0)
    /\ oracle' = {}
    /\ UNCHANGED <<chain, proc, key, x, xm, xr, vt>>

Next ==
    \/ Encrypt
    \/ Decrypt
    \/ DecryptDefault
    \/ ModifyByAmount
    \/ ModifyByCiphertext
    \/ Resume

Spec == Init /\ [][Next]_vars

-----------------------------------------------------------------------------
(* Claims about Twisted ElGamal, checked under Spec *)

\* the decryption windows the claims quantify over
Windows == {Range(lo, hi) : lo \in 0..MaxStart, hi \in 0..(ChunkEnd + 1)}

InWindow(v, w) == w.start <= v /\ v < w.end

\* x is (still) the encryption of xm with randomness xr under the caller's key
XIntact == x = Ciphertext(encryptWithPK(xm, publicKey(key), xr))

\* C1 (as amended): for every amount m in the chunk window [0, 2^ChunkBits),
\* every key s with P = (1/s)H and every randomness r that is not 0 mod n,
\* encryptWithPK(m, P, r) returns a ciphertext and decryptWithPK of it with s
\* and the window [0, 2^ChunkBits) returns exactly m.
C1_RoundTrip ==
    /\ (call.op = "encrypt" /\ call.m \in 0..(ChunkEnd - 1) /\ mod(call.r, CURVE_n) # 0)
          => /\ ret.err = NoError
             /\ decryptWithPK(Ciphertext(ret), key, Range(0, ChunkEnd))
                    = RetAmount(call.m, call.m + 1)
    /\ (call.op = "decrypt" /\ call.k = key /\ call.lo = 0 /\ call.hi = ChunkEnd
            /\ xm \in 0..(ChunkEnd - 1))
          => (ret.err = NoError /\ ret.val = xm)

\* C1 witness: the amount at the top of the window was encrypted and decrypted
C1_Witness ==
    /\ call.op = "decrypt" /\ call.k = key /\ call.lo = 0 /\ call.hi = ChunkEnd
    /\ xm = ChunkEnd - 1
    /\ ret.err = NoError /\ ret.val = xm

\* C1 as stated: the round trip returns m for every randomness r
C1_Original ==
    (call.op = "encrypt" /\ call.m \in 0..(ChunkEnd - 1))
        => /\ ret.err = NoError
           /\ decryptWithPK(Ciphertext(ret), key, Range(0, ChunkEnd)).val = call.m

\* C2: encryptWithPK throws, and yields no ciphertext, for every amount
\* outside [0, n): every negative amount and every amount >= n.
C2_RejectsOutOfRange ==
    (call.op = "encrypt" /\ (call.m < 0 \/ call.m >= CURVE_n))
        => (ret.err # NoError /\ x = call.other /\ XIntact)

\* C2 witness: an amount >= n and a negative amount are both rejected
\* with a usable randomness
C2_Witness ==
    /\ call.op = "encrypt" /\ call.m >= CURVE_n /\ mod(call.r, CURVE_n) # 0
    /\ ret.err # NoError
    /\ encryptWithPK(0 - 1, publicKey(key), call.r).err # NoError

\* C3: decryptWithPK with the window [lo, hi) returns only values m with
\* lo <= m < hi, and throws when no such m matches.
C3_WithinWindow ==
    (call.op = "decrypt" /\ ret.err = NoError)
        => (call.lo <= ret.val /\ ret.val < call.hi)

\* C4: addCiphertext returns (Cx+Cy, Dx+Dy), subtractCiphertext returns
\* (Cx-Cy, Dx-Dy); the result decrypts to m1+m2 (m1-m2) in every window that
\* holds it; the operands are left as they were.
C4_Homomorphism ==
    /\ call.op = "addCiphertext"
          => /\ ret.err = NoError
             /\ ret.C = (x.C + call.other.C) % CURVE_n
             /\ ret.D = (x.D + call.other.D) % CURVE_n
             /\ \A w \in Windows : InWindow(xm + call.m, w)
                   => /\ decryptWithPK(Ciphertext(ret), key, w).err = NoError
                      /\ decryptWithPK(Ciphertext(ret), key, w).val = xm + call.m
             /\ XIntact
             /\ call.other = Ciphertext(encryptWithPK(call.m, publicKey(key), call.r))
    /\ call.op = "subtractCiphertext"
          => /\ ret.err = NoError
             /\ ret.C = (x.C - call.other.C) % CURVE_n
             /\ ret.D = (x.D - call.other.D) % CURVE_n
             /\ \A w \in Windows : InWindow(xm - call.m, w)
                   => /\ decryptWithPK(Ciphertext(ret), key, w).err = NoError
                      /\ decryptWithPK(Ciphertext(ret), key, w).val = xm - call.m
             /\ XIntact
             /\ call.other = Ciphertext(encryptWithPK(call.m, publicKey(key), call.r))

\* C4 witness: two non-zero amounts were added and the sum lies in the window
C4_Witness ==
    /\ call.op = "addCiphertext" /\ xm > 0 /\ call.m > 0
    /\ xm + call.m < ChunkEnd
    /\ ret.err = NoError
    /\ decryptWithPK(Ciphertext(ret), key, Range(0, ChunkEnd)).val = xm + call.m

\* C5: addAmount(a) and subtractAmount(a), for an amount a in [0, n), return
\* (C + aG, D) and (C - aG, D); the result decrypts to m + a (m - a), and
\* subtractAmount(a) of addAmount(a) is the original ciphertext.
C5_AmountFrame ==
    /\ (call.op = "add" /\ call.m \in 0..(CURVE_n - 1))
          => /\ ret.err = NoError
             /\ ret.C = (x.C + call.m) % CURVE_n
             /\ ret.D = x.D
             /\ Ciphertext(subtractAmount(Ciphertext(ret), call.m)) = x
    /\ (call.op = "subtract" /\ call.m \in 0..(CURVE_n - 1))
          => /\ ret.err = NoError
             /\ ret.C = (x.C - call.m) % CURVE_n
             /\ ret.D = x.D

\* what C5 says of the amounts addAmount accepts, 1 <= a < n
C5_NonZeroAmounts ==
    /\ (call.op = "add" /\ call.m \in 1..(CURVE_n - 1))
          => /\ ret.err = NoError
             /\ ret.C = (x.C + call.m) % CURVE_n
             /\ ret.D = x.D
             /\ Ciphertext(subtractAmount(Ciphertext(ret), call.m)) = x
             /\ \A w \in Windows : InWindow(xm + call.m, w)
                   => decryptWithPK(Ciphertext(ret), key, w).val = xm + call.m
    /\ (call.op = "subtract" /\ call.m \in 1..(CURVE_n - 1))
          => /\ ret.err = NoError
             /\ ret.C = (x.C - call.m) % CURVE_n
             /\ ret.D = x.D
             /\ \A w \in Windows : InWindow(xm - call.m, w)
                   => decryptWithPK(Ciphertext(ret), key, w).val = xm - call.m


-----------------------------------------------------------------------------
(* Sigma proofs over one ciphertext: withdraw, transfer, key rotation.     *)
(* Scalars and points travel as 32-byte little-endian strings, which are   *)
(* modelled by the numbers they encode; a proof is the sequence of its     *)
(* 32-byte fields.                                                         *)

FIAT_SHAMIR_SIGMA_DST == "AptosVeiledCoin/WithdrawalSubproofFiatShamir"

\* modN of helpers: reduction into the scalar field
modN(a) == a % CURVE_n

\* genFiatShamirChallenge(...arrays): SHA-512 of the concatenation, reduced
\* mod n.  The hash is a random oracle: a query made before gets the answer it
\* got, a new query gets the value fresh.
genFiatShamirChallenge(arrays, fresh) ==
    IF \E q \in oracle : q[1] = arrays
    THEN (CHOOSE q \in oracle : q[1] = arrays)[2]
    ELSE modN(fresh)

\* the hash has answered the query arrays before
Hashed(arrays) == \E q \in oracle : q[1] = arrays

\* a generator that returned the proof bytes; arrays and p are the hash query
\* it made and the answer
RetProof(bytes, arrays, p) ==
    [err |-> NoError, bytes |-> bytes, ok |-> FALSE, arrays |-> arrays, p |-> p]

\* a verifier that returned the boolean ok
RetVerdict(ok, arrays, p) ==
    [err |-> NoError, bytes |-> <<>>, ok |-> ok, arrays |-> arrays, p |-> p]

\* a generator or verifier that threw
RetSigmaError(e) ==
    [err |-> e, bytes |-> <<>>, ok |-> FALSE, arrays |-> <<>>, p |-> 0]

\* a.equals(fromHex(a')) && b.equals(fromHex(b')) && ..., also list.every(...):
\* left to right, stopping at the first that is false or throws
everyEquals(pairs, arrays, p) ==
    LET Thrown_(i) == ~IsPoint(pairs[i][1]) \/ ~IsPoint(fromHex(pairs[i][2]))
        False_(i) == ~Thrown_(i) /\ ~equals(pairs[i][1], fromHex(pairs[i][2]))
        stops == {i \in 1..Len(pairs) : Thrown_(i) \/ False_(i)}
        first == CHOOSE i \in stops : \A j \in stops : i <= j
    IN  IF stops = {} THEN RetVerdict(TRUE, arrays, p)
        ELSE IF Thrown_(first) THEN RetSigmaError("NobleError")
        ELSE RetVerdict(FALSE, arrays, p)

\* serializeVeiledWithdrawSigmaProof: alpha1 | alpha2 | alpha3 | X1 | X2
serializeVeiledWithdrawSigmaProof(pr) ==
    <<pr.alpha1, pr.alpha2, pr.alpha3, pr.X1, pr.X2>>

\* deserializeSigmaProofVeiledWithdraw
deserializeSigmaProofVeiledWithdraw(b) ==
    [alpha1 |-> b[1], alpha2 |-> b[2], alpha3 |-> b[3], X1 |-> b[4], X2 |-> b[5]]

\* genSigmaProofVeiledWithdraw(opts), with x1..x3 the values genModRandom
\* returns and fresh the hash of a new query
genSigmaProofVeiledWithdraw(opts, x1, x2, x3, fresh) ==
    LET privateKey == opts.privateKey
        X1 == add(multiply(BASE, x1), multiply(opts.encryptedBalance.D, x2))
        X2 == multiply(H_RISTRETTO, x3)
        arrays == <<FIAT_SHAMIR_SIGMA_DST, opts.amount, publicKey(privateKey),
                    toRawBytes(opts.encryptedBalance.C),
                    toRawBytes(opts.encryptedBalance.D),
                    toRawBytes(BASE), toRawBytes(H_RISTRETTO),
                    toRawBytes(X1), toRawBytes(X2)>>
        p == genFiatShamirChallenge(arrays, fresh)
        sLE == privateKey
        invertSLE == invertN(sLE)
        pt == modN(p * opts.changedBalance)
        ps == modN(p * sLE)
        psInvert == modN(p * invertSLE)
        alpha1 == modN(x1 - pt)
        alpha2 == modN(x2 - ps)
        alpha3 == modN(x3 - psInvert)
    IN  IF ~IsPoint(X1) \/ ~IsPoint(X2) \/ ~IsPoint(publicKey(privateKey))
        THEN RetSigmaError("NobleError")
        ELSE RetProof(serializeVeiledWithdrawSigmaProof(
                          [alpha1 |-> alpha1, alpha2 |-> alpha2, alpha3 |-> alpha3,
                           X1 |-> toRawBytes(X1), X2 |-> toRawBytes(X2)]),
                      arrays, p)

\* the hash query of verifySigmaProofVeiledWithdraw
withdrawQuery(opts) ==
    LET proof == deserializeSigmaProofVeiledWithdraw(opts.proof)
        publicKeyU8 == opts.publicKey
    IN  <<FIAT_SHAMIR_SIGMA_DST, opts.amount, publicKeyU8,
        toRawBytes(opts.encryptedBalance.C),
        toRawBytes(opts.encryptedBalance.D),
        toRawBytes(BASE), toRawBytes(H_RISTRETTO),
        proof.X1, proof.X2>>

\* verifySigmaProofVeiledWithdraw(opts)
verifySigmaProofVeiledWithdraw(opts, fresh) ==
    LET proof == deserializeSigmaProofVeiledWithdraw(opts.proof)
        publicKeyU8 == opts.publicKey
        alpha1LE == proof.alpha1
        alpha2LE == proof.alpha2
        alpha3LE == proof.alpha3
        alpha1G == multiply(BASE, alpha1LE)
        alpha2D == multiply(opts.encryptedBalance.D, alpha2LE)
        alpha3H == multiply(H_RISTRETTO, alpha3LE)
        arrays == withdrawQuery(opts)
        p == genFiatShamirChallenge(arrays, fresh)
        pP == multiply(fromHex(publicKeyU8), p)
        X1 == add(add(alpha1G, alpha2D),
                  multiply(subtract(opts.encryptedBalance.C,
                                    multiply(BASE, opts.amount)), p))
        X2 == add(alpha3H, pP)
    IN  IF ~IsPoint(X1) \/ ~IsPoint(X2)
        THEN RetSigmaError("NobleError")
        ELSE everyEquals(<<<<X1, proof.X1>>, <<X2, proof.X2>>>>, arrays, p)

\* serializeSigmaProofVeiledTransfer: alpha1..alpha5 | X1..X5 | auditorsX
serializeSigmaProofVeiledTransfer(pr) ==
    <<pr.alpha1, pr.alpha2, pr.alpha3, pr.alpha4, pr.alpha5,
      pr.X1, pr.X2, pr.X3, pr.X4, pr.X5>> \o pr.auditorsX

\* deserializeSigmaProofVeiledTransfer
deserializeSigmaProofVeiledTransfer(b) ==
    [alpha1 |-> b[1], alpha2 |-> b[2], alpha3 |-> b[3], alpha4 |-> b[4],
     alpha5 |-> b[5], X1 |-> b[6], X2 |-> b[7], X3 |-> b[8], X4 |-> b[9],
     X5 |-> b[10], auditorsX |-> SubSeq(b, 11, Len(b))]

\* list.every(IsPoint)
AllPoints(list) == \A i \in 1..Len(list) : IsPoint(list[i])

\* genSigmaProofVeiledTransfer(opts), with x1..x5 the values genModRandom
\* returns and fresh the hash of a new query
genSigmaProofVeiledTransfer(opts, x1, x2, x3, x4, x5, fresh) ==
    LET rBytes == opts.random
        rAmount == modN(rBytes)
        senderPrivateKey == opts.senderPrivateKey
        receiverPublicKeyU8 == opts.receiverPublicKey
        senderPublicKey == publicKey(senderPrivateKey)
        senderPKRistretto == fromHex(senderPublicKey)
        receiverPKRistretto == fromHex(receiverPublicKeyU8)
        receiverDRistretto == multiply(receiverPKRistretto, rAmount)
        amountCiphertext == encryptWithPK(opts.amount, senderPublicKey, rBytes)
        auditorsX == [i \in 1..Len(opts.auditorPublicKeys) |->
                         toRawBytes(multiply(fromHex(opts.auditorPublicKeys[i]), x3))]
        X1 == add(multiply(BASE, x1),
                  multiply(subtract(opts.encryptedSenderBalance.D, amountCiphertext.D), x2))
        X2 == multiply(senderPKRistretto, x3)
        X3 == multiply(receiverPKRistretto, x3)
        X4 == add(multiply(BASE, x4), multiply(H_RISTRETTO, x3))
        X5 == multiply(H_RISTRETTO, x5)
        arrays == <<FIAT_SHAMIR_SIGMA_DST, senderPublicKey, receiverPublicKeyU8,
                    toRawBytes(opts.encryptedSenderBalance.C),
                    toRawBytes(opts.encryptedSenderBalance.D),
                    toRawBytes(amountCiphertext.C), toRawBytes(amountCiphertext.D),
                    toRawBytes(receiverDRistretto),
                    toRawBytes(BASE), toRawBytes(H_RISTRETTO),
                    toRawBytes(X1), toRawBytes(X2), toRawBytes(X3),
                    toRawBytes(X4), toRawBytes(X5)>> \o auditorsX
        p == genFiatShamirChallenge(arrays, fresh)
        sLE == senderPrivateKey
        invertSLE == invertN(sLE)
        alpha1 == modN(x1 - p * opts.changedSenderBalance)
        alpha2 == modN(x2 - p * sLE)
        alpha3 == modN(x3 - p * rAmount)
        alpha4 == modN(x4 - p * opts.amount)
        alpha5 == modN(x5 - p * invertSLE)
    IN  IF amountCiphertext.err # NoError THEN RetSigmaError(amountCiphertext.err)
        ELSE IF ~AllPoints(<<receiverDRistretto, X1, X2, X3, X4, X5>> \o auditorsX)
        THEN RetSigmaError("NobleError")
        ELSE RetProof(serializeSigmaProofVeiledTransfer(
                          [alpha1 |-> alpha1, alpha2 |-> alpha2, alpha3 |-> alpha3,
                           alpha4 |-> alpha4, alpha5 |-> alpha5,
                           X1 |-> toRawBytes(X1), X2 |-> toRawBytes(X2),
                           X3 |-> toRawBytes(X3), X4 |-> toRawBytes(X4),
                           X5 |-> toRawBytes(X5), auditorsX |-> auditorsX]),
                      arrays, p)

\* the hash query of verifySigmaProofVeiledTransfer
transferQuery(opts) ==
    LET proof == deserializeSigmaProofVeiledTransfer(opts.proof)
        auditorsX == proof.auditorsX
        receiverDRistretto == fromHex(opts.receiverDa)
        senderPublicKeyU8 == opts.senderPublicKey
        receiverPublicKeyU8 == opts.receiverPublicKey
    IN  <<FIAT_SHAMIR_SIGMA_DST, senderPublicKeyU8, receiverPublicKeyU8,
        toRawBytes(opts.encryptedSenderBalance.C),
        toRawBytes(opts.encryptedSenderBalance.D),
        toRawBytes(opts.encryptedAmountBySender.C),
        toRawBytes(opts.encryptedAmountBySender.D),
        toRawBytes(receiverDRistretto),
        toRawBytes(BASE), toRawBytes(H_RISTRETTO),
        proof.X1, proof.X2, proof.X3, proof.X4, proof.X5>> \o auditorsX

\* verifySigmaProofVeiledTransfer(opts)
verifySigmaProofVeiledTransfer(opts, fresh) ==
    LET proof == deserializeSigmaProofVeiledTransfer(opts.proof)
        auditorsX == proof.auditorsX
        auditorPKs == opts.auditors.publicKeys
        auditorDecryptionKeys == opts.auditors.decryptionKeys
        receiverDRistretto == fromHex(opts.receiverDa)
        alpha1LE == proof.alpha1
        alpha2LE == proof.alpha2
        alpha3LE == proof.alpha3
        alpha4LE == proof.alpha4
        alpha5LE == proof.alpha5
        senderPublicKeyU8 == opts.senderPublicKey
        receiverPublicKeyU8 == opts.receiverPublicKey
        senderPKRistretto == fromHex(senderPublicKeyU8)
        receiverPKRistretto == fromHex(receiverPublicKeyU8)
        arrays == transferQuery(opts)
        p == genFiatShamirChallenge(arrays, fresh)
        alpha1G == multiply(BASE, alpha1LE)
        alpha2Db == multiply(subtract(opts.encryptedSenderBalance.D,
                                      opts.encryptedAmountBySender.D), alpha2LE)
        pCb == multiply(subtract(opts.encryptedSenderBalance.C,
                                 opts.encryptedAmountBySender.C), p)
        X1 == add(add(alpha1G, alpha2Db), pCb)
        X2 == add(multiply(senderPKRistretto, alpha3LE),
                  multiply(opts.encryptedAmountBySender.D, p))
        X3 == add(multiply(receiverPKRistretto, alpha3LE),
                  multiply(receiverDRistretto, p))
        X4 == add(add(multiply(BASE, alpha4LE), multiply(H_RISTRETTO, alpha3LE)),
                  multiply(opts.encryptedAmountBySender.C, p))
        X5 == add(multiply(H_RISTRETTO, alpha5LE), multiply(senderPKRistretto, p))
        X(index) == add(multiply(fromHex(auditorPKs[index]), alpha3LE),
                        multiply(fromHex(auditorDecryptionKeys[index]), p))
        isAuditorsXValid ==
            everyEquals([i \in 1..Len(auditorsX) |-> <<X(i), auditorsX[i]>>], arrays, p)
    IN  IF Len(auditorsX) # Len(auditorDecryptionKeys) \/ Len(auditorsX) # Len(auditorPKs)
        THEN RetSigmaError("AuditorsMismatch")
        ELSE IF ~AllPoints(<<receiverDRistretto, X1, X2, X3, X4, X5>>)
        THEN RetSigmaError("NobleError")
        ELSE IF isAuditorsXValid.err # NoError \/ ~isAuditorsXValid.ok
        THEN isAuditorsXValid
        ELSE everyEquals(<<<<X1, proof.X1>>, <<X2, proof.X2>>, <<X3, proof.X3>>,
                           <<X4, proof.X4>>, <<X5, proof.X5>>>>, arrays, p)

\* serializeSigmaProofVeiledKeyRotation: alpha1..alpha5 | X1..X4
serializeSigmaProofVeiledKeyRotation(pr) ==
    <<pr.alpha1, pr.alpha2, pr.alpha3, pr.alpha4, pr.alpha5,
      pr.X1, pr.X2, pr.X3, pr.X4>>

\* deserializeSigmaProofVeiledKeyRotation
deserializeSigmaProofVeiledKeyRotation(b) ==
    [alpha1 |-> b[1], alpha2 |-> b[2], alpha3 |-> b[3], alpha4 |-> b[4],
     alpha5 |-> b[5], X1 |-> b[6], X2 |-> b[7], X3 |-> b[8], X4 |-> b[9]]

\* genSigmaProofVeiledKeyRotation(opts), with x1..x5 the values genModRandom
\* returns and fresh the hash of a new query
genSigmaProofVeiledKeyRotation(opts, x1, x2, x3, x4, x5, fresh) ==
    LET oldPrivateKey == opts.oldPrivateKey
        newPrivateKey == opts.newPrivateKey
        oldPublicKey == publicKey(oldPrivateKey)
        newPublicKey == publicKey(newPrivateKey)
        rBytes == opts.random
        r == modN(rBytes)
        newCiphertext == encryptWithPK(opts.balance, newPublicKey, rBytes)
        X1 == subtract(multiply(opts.encryptedBalance.D, x1),
                       multiply(newCiphertext.D, x2))
        X2 == add(multiply(BASE, x3), multiply(H_RISTRETTO, x4))
        X3 == multiply(fromHex(newPublicKey), x4)
        X4 == multiply(H_RISTRETTO, x5)
        arrays == <<FIAT_SHAMIR_SIGMA_DST, oldPublicKey, newPublicKey,
                    toRawBytes(opts.encryptedBalance.C),
                    toRawBytes(opts.encryptedBalance.D),
                    toRawBytes(newCiphertext.C), toRawBytes(newCiphertext.D),
                    toRawBytes(BASE), toRawBytes(H_RISTRETTO),
                    toRawBytes(X1), toRawBytes(X2), toRawBytes(X3), toRawBytes(X4)>>
        p == genFiatShamirChallenge(arrays, fresh)
        oldSLE == oldPrivateKey
        invertOldSLE == invertN(oldSLE)
        alpha1 == modN(x1 - p * oldSLE)
        alpha2 == modN(x2 - p * newPrivateKey)
        alpha3 == modN(x3 - p * opts.balance)
        alpha4 == modN(x4 - p * r)
        alpha5 == modN(x5 - p * invertOldSLE)
    IN  IF newCiphertext.err # NoError THEN RetSigmaError(newCiphertext.err)
        ELSE IF ~AllPoints(<<oldPublicKey, X1, X2, X3, X4>>)
        THEN RetSigmaError("NobleError")
        ELSE RetProof(serializeSigmaProofVeiledKeyRotation(
                          [alpha1 |-> alpha1, alpha2 |-> alpha2, alpha3 |-> alpha3,
                           alpha4 |-> alpha4, alpha5 |-> alpha5,
                           X1 |-> toRawBytes(X1), X2 |-> toRawBytes(X2),
                           X3 |-> toRawBytes(X3), X4 |-> toRawBytes(X4)]),
                      arrays, p)

\* the hash query of verifySigmaProofVeiledKeyRotation
keyRotationQuery(opts) ==
    LET proof == deserializeSigmaProofVeiledKeyRotation(opts.proof)
    IN  <<FIAT_SHAMIR_SIGMA_DST, opts.oldPublicKey, opts.newPublicKey,
        toRawBytes(opts.oldEncryptedBalance.C),
        toRawBytes(opts.oldEncryptedBalance.D),
        toRawBytes(opts.newEncryptedBalance.C),
        toRawBytes(opts.newEncryptedBalance.D),
        toRawBytes(BASE), toRawBytes(H_RISTRETTO),
        proof.X1, proof.X2, proof.X3, proof.X4>>

\* verifySigmaProofVeiledKeyRotation(opts)
verifySigmaProofVeiledKeyRotation(opts, fresh) ==
    LET proof == deserializeSigmaProofVeiledKeyRotation(opts.proof)
        alpha1LE == proof.alpha1
        alpha2LE == proof.alpha2
        alpha3LE == proof.alpha3
        alpha4LE == proof.alpha4
        alpha5LE == proof.alpha5
        arrays == keyRotationQuery(opts)
        p == genFiatShamirChallenge(arrays, fresh)
        alpha1DOld == multiply(opts.oldEncryptedBalance.D, alpha1LE)
        alpha2DNew == multiply(opts.newEncryptedBalance.D, alpha2LE)
        alpha3G == multiply(BASE, alpha3LE)
        alpha4H == multiply(H_RISTRETTO, alpha4LE)
        pCNew == multiply(opts.newEncryptedBalance.C, p)
        pkOldRist == fromHex(opts.oldPublicKey)
        pkNewRist == fromHex(opts.newPublicKey)
        X1 == add(subtract(alpha1DOld, alpha2DNew),
                  multiply(subtract(opts.oldEncryptedBalance.C,
                                    opts.newEncryptedBalance.C), p))
        X2 == add(add(alpha3G, alpha4H), pCNew)
        X3 == add(multiply(pkNewRist, alpha4LE), multiply(opts.newEncryptedBalance.D, p))
        X4 == add(multiply(H_RISTRETTO, alpha5LE), multiply(pkOldRist, p))
    IN  IF ~AllPoints(<<X1, X2, X3, X4>>)
        THEN RetSigmaError("NobleError")
        ELSE everyEquals(<<<<X1, proof.X1>>, <<X2, proof.X2>>, <<X3, proof.X3>>,
                           <<X4, proof.X4>>>>, arrays, p)

-----------------------------------------------------------------------------
(* The sigma proofs as a state machine: the holder of key and of the       *)
(* encrypted balance x proves, the proof is verified over the same public  *)
(* inputs.                                                                 *)

\* the balances x encrypts
Balances == 0..MaxBalance

\* values genModRandom returns: the least and the greatest non-zero scalar
Nonces == {1, CURVE_n - 1}

\* the values of the Fiat-Shamir hash
Challenges == 0..(CURVE_n - 1)

\* the receiver of a transfer: another key holder
Receiver(s) == (s % MaxKey) + 1

\* the decryption keys of the auditors of a transfer
AuditorLists == {<<>>, <<1>>, <<1, MaxKey>>}

SigmaCall(op, opts, pub) == [op |-> op, opts |-> opts, pub |-> pub]

\* the queries answered once the call res has returned
Answered(res) ==
    IF res.err = NoError THEN oracle \cup {<<res.arrays, res.p>>} ELSE oracle

InitSigma ==
    /\ key \in Keys
    /\ xm \in Balances
    /\ xr = 1
    /\ x = Ciphertext(encryptWithPK(xm, publicKey(key), xr))
    /\ call = Call("idle", 0, 0, 0, 0, 0, NoCiphertext)
    /\ ret = RetAmount(0, 0)
    /\ oracle = {}
    /\ vt = NoObject
    /\ chain = NoChain
    /\ proc = NoCall

\* genSigmaProofVeiledWithdraw for an amount within the balance
ProveWithdraw ==
    /\ Idle
    /\ \E amount \in 0..xm, x1, x2, x3 \in Nonces, fresh \in Challenges :
          LET opts == [privateKey |-> key, encryptedBalance |-> x,
                       amount |-> amount, changedBalance |-> xm - amount]
              pub == [publicKey |-> publicKey(key), encryptedBalance |-> x,
                      amount |-> amount]
              res == genSigmaProofVeiledWithdraw(opts, x1, x2, x3, fresh)
          IN  /\ call' = SigmaCall("genSigmaProofVeiledWithdraw", opts, pub)
              /\ ret' = res
              /\ oracle' = Answered(res)
    /\ UNCHANGED <<chain, proc, key, x, xm, xr, vt>>

\* verifySigmaProofVeiledWithdraw of the proof just made
VerifyWithdraw ==
    /\ call.op = "genSigmaProofVeiledWithdraw"
    /\ ret.err = NoError
    /\ LET opts == [publicKey |-> call.pub.publicKey,
                    encryptedBalance |-> call.pub.encryptedBalance,
                    amount |-> call.pub.amount, proof |-> ret.bytes]
       IN  \E fresh \in Challenges :
              /\ Hashed(withdrawQuery(opts)) => fresh = 0
              /\ call' = SigmaCall("verifySigmaProofVeiledWithdraw", opts, call.pub)
              /\ ret' = verifySigmaProofVeiledWithdraw(opts, fresh)
              /\ oracle' = Answered(verifySigmaProofVeiledWithdraw(opts, fresh))
    /\ UNCHANGED <<chain, proc, key, x, xm, xr, vt>>

\* genSigmaProofVeiledTransfer for an amount within the balance
ProveTransfer ==
    /\ Idle
    /\ \E amount \in 0..xm, random \in 1..MaxRand, auditors \in AuditorLists,
          x1, x2, x3, x4, x5 \in Nonces, fresh \in Challenges :
          LET senderPublicKey == publicKey(key)
              receiverPublicKey == publicKey(Receiver(key))
              auditorPublicKeys ==
                  [i \in 1..Len(auditors) |-> publicKey(auditors[i])]
              opts == [senderPrivateKey |-> key,
                       receiverPublicKey |-> receiverPublicKey,
                       encryptedSenderBalance |-> x, amount |-> amount,
                       changedSenderBalance |-> xm - amount, random |-> random,
                       auditorPublicKeys |-> auditorPublicKeys]
              pub == [senderPublicKey |-> senderPublicKey,
                      receiverPublicKey |-> receiverPublicKey,
                      encryptedSenderBalance |-> x,
                      encryptedAmountBySender |->
                          Ciphertext(encryptWithPK(amount, senderPublicKey, random)),
                      receiverDa |->
                          toRawBytes(multiply(fromHex(receiverPublicKey),
                                              modN(random))),
                      auditors |->
                          [publicKeys |-> auditorPublicKeys,
                           decryptionKeys |->
                               [i \in 1..Len(auditors) |->
                                   toRawBytes(multiply(fromHex(auditorPublicKeys[i]),
                                                       modN(random)))]]]
              res == genSigmaProofVeiledTransfer(opts, x1, x2, x3, x4, x5, fresh)
          IN  /\ call' = SigmaCall("genSigmaProofVeiledTransfer", opts, pub)
              /\ ret' = res
              /\ oracle' = Answered(res)
    /\ UNCHANGED <<chain, proc, key, x, xm, xr, vt>>

\* the values genModRandom returns to a second call, and the hash of its query
\* when that is a new one
SecondNonces == {BASE}
SecondChallenges == {0, BASE}

\* genSigmaProofVeiledTransfer called a second time with the options of the
\* call that has just returned
ProveTransferAgain ==
    /\ call.op = "genSigmaProofVeiledTransfer"
    /\ ret.err = NoError
    /\ Cardinality(oracle) = 1
    /\ \E xs \in SecondNonces, fresh \in SecondChallenges :
          LET res == genSigmaProofVeiledTransfer(call.opts, xs, xs, xs, xs, xs, fresh)
          IN  /\ (res.err # NoError \/ Hashed(res.arrays)) => fresh = 0
              /\ call' = call
              /\ ret' = res
              /\ oracle' = Answered(res)
    /\ UNCHANGED <<chain, proc, key, x, xm, xr, vt>>

\* verifySigmaProofVeiledTransfer of the proof just made
VerifyTransfer ==
    /\ call.op = "genSigmaProofVeiledTransfer"
    /\ ret.err = NoError
    /\ LET opts == [senderPublicKey |-> call.pub.senderPublicKey,
                    receiverPublicKey |-> call.pub.receiverPublicKey,
                    encryptedSenderBalance |-> call.pub.encryptedSenderBalance,
                    encryptedAmountBySender |-> call.pub.encryptedAmountBySender,
                    receiverDa |-> call.pub.receiverDa,
                    proof |-> ret.bytes,
                    auditors |-> call.pub.auditors]
       IN  \E fresh \in Challenges :
              /\ Hashed(transferQuery(opts)) => fresh = 0
              /\ call' = SigmaCall("verifySigmaProofVeiledTransfer", opts, call.pub)
              /\ ret' = verifySigmaProofVeiledTransfer(opts, fresh)
              /\ oracle' = Answered(verifySigmaProofVeiledTransfer(opts, fresh))
    /\ UNCHANGED <<chain, proc, key, x, xm, xr, vt>>

\* genSigmaProofVeiledKeyRotation of the balance to newKey
ProveKeyRotation ==
    /\ Idle
    /\ \E newKey \in Keys, random \in 1..MaxRand,
          x1, x2, x3, x4, x5 \in Nonces, fresh \in Challenges :
          LET opts == [oldPrivateKey |-> key, newPrivateKey |-> newKey,
                       balance |-> xm, encryptedBalance |-> x, random |-> random]
              pub == [oldPublicKey |-> publicKey(key),
                      newPublicKey |-> publicKey(newKey),
                      oldEncryptedBalance |-> x,
                      newEncryptedBalance |->
                          Ciphertext(encryptWithPK(xm, publicKey(newKey), random))]
              res == genSigmaProofVeiledKeyRotation(opts, x1, x2, x3, x4, x5, fresh)
          IN  /\ call' = SigmaCall("genSigmaProofVeiledKeyRotation", opts, pub)
              /\ ret' = res
              /\ oracle' = Answered(res)
    /\ UNCHANGED <<chain, proc, key, x, xm, xr, vt>>

\* verifySigmaProofVeiledKeyRotation of the proof just made
VerifyKeyRotation ==
    /\ call.op = "genSigmaProofVeiledKeyRotation"
    /\ ret.err = NoError
    /\ LET opts == [oldPublicKey |-> call.pub.oldPublicKey,
                    newPublicKey |-> call.pub.newPublicKey,
                    oldEncryptedBalance |-> call.pub.oldEncryptedBalance,
                    newEncryptedBalance |-> call.pub.newEncryptedBalance,
                    proof |-> ret.bytes]
       IN  \E fresh \in Challenges :
              /\ Hashed(keyRotationQuery(opts)) => fresh = 0
              /\ call' = SigmaCall("verifySigmaProofVeiledKeyRotation", opts, call.pub)
              /\ ret' = verifySigmaProofVeiledKeyRotation(opts, fresh)
              /\ oracle' = Answered(verifySigmaProofVeiledKeyRotation(opts, fresh))
    /\ UNCHANGED <<chain, proc, key, x, xm, xr, vt>>

NextSigma ==
    \/ ProveWithdraw
    \/ VerifyWithdraw
    \/ ProveTransfer
    \/ ProveTransferAgain
    \/ VerifyTransfer
    \/ ProveKeyRotation
    \/ VerifyKeyRotation
    \/ Resume

SpecSigma == InitSigma /\ [][NextSigma]_vars

-----------------------------------------------------------------------------
(* Claims about the sigma proofs, checked under SpecSigma *)

VerifyOps ==
    {"verifySigmaProofVeiledWithdraw", "verifySigmaProofVeiledTransfer",
     "verifySigmaProofVeiledKeyRotation"}

\* the response scalars of the proof being verified
Responses ==
    IF call.op = "verifySigmaProofVeiledWithdraw"
    THEN {call.opts.proof[i] : i \in 1..3}
    ELSE {call.opts.proof[i] : i \in 1..5}

\* C7: for every challenge value, the proof genSigmaProofVeiledWithdraw,
\* genSigmaProofVeiledTransfer or genSigmaProofVeiledKeyRotation made from a
\* balance, an amount within it and the matching public inputs is accepted by
\* its verifier: the verifier returns true.
C7_Completeness ==
    call.op \in VerifyOps => (ret.err = NoError /\ ret.ok)

\* what C7 says of the proofs in which no scalar the verifier multiplies by is
\* zero: the challenge, the responses and a withdrawn amount
C7_NonZeroScalars ==
    (/\ call.op \in VerifyOps
     /\ 0 \notin Responses
     /\ \A q \in oracle : q[2] # 0
     /\ call.op = "verifySigmaProofVeiledWithdraw" => call.opts.amount # 0)
        => (ret.err = NoError /\ ret.ok)

\* C11: two calls of the Transfer sigma-proof generator on the same state (same
\* key, ciphertexts, amount and randomness) return byte-identical proofs.
C11_Deterministic ==
    [][(/\ call.op = "genSigmaProofVeiledTransfer"
        /\ call'.op = "genSigmaProofVeiledTransfer"
        /\ call'.opts = call.opts
        /\ ret.err = NoError
        /\ ret'.err = NoError)
           => ret'.bytes = ret.bytes]_vars

-----------------------------------------------------------------------------
(* VeiledTransfer: the chunked transfer builder.  An object is the record  *)
(* of its fields with the set of the fields that have been assigned: a     *)
(* field outside that set is undefined, whatever the record holds for it.  *)

\* VEILED_BALANCE_CHUNK_SIZE: chunks of a balance
VEILED_BALANCE_CHUNK_SIZE == 4

\* the end of the window init() decrypts each chunk in
InitDecryptEnd == 1000

\* 2n ** CHUNK_BITS_BI
ChunkSize == 2 ^ ChunkBitsBound

\* amountToChunks(amount, chunksCount): the base-2^CHUNK_BITS digits, least first
amountToChunks(amount, chunksCount) ==
    [i \in 1..chunksCount |-> (amount \div (ChunkSize ^ (i - 1))) % ChunkSize]

\* chunksToAmount(chunks): the number with these digits
RECURSIVE chunksToAmount(_)
chunksToAmount(chunks) ==
    IF chunks = <<>> THEN 0
    ELSE Head(chunks) + ChunkSize * chunksToAmount(Tail(chunks))

\* TwistedElGamal.encryptWithPK(amount, publicKey, random) called with a bigint
\* for random: ensureBytes accepts a hex string or a Uint8Array and throws on
\* anything else
encryptWithBigintRandom(amount, pk, random) ==
    IF amount < 0 /\ amount >= CURVE_n
    THEN RetError("AmountRange", 0)
    ELSE RetError("RandomBytes", 0)

Fields ==
    {"twistedEd25519PrivateKey", "recipientPublicKey", "recipientPublicKeyU8",
     "auditorPublicKeys", "auditorsU8PublicKeys", "auditorsDList",
     "encryptedActualBalance", "chunkedAmountToTransfer",
     "chunkedBalanceAfterTransfer", "amountToTransfer", "balanceAfterTransfer",
     "encryptedActualBalanceAfterTransfer", "encryptedAmountByRecipient",
     "randomness"}

\* the object before the constructor body runs: isInitialized = false and no
\* other field assigned
NewObject ==
    [isInitialized |-> FALSE,
     assigned |-> {},
     twistedEd25519PrivateKey |-> 0,
     recipientPublicKey |-> 0,
     recipientPublicKeyU8 |-> 0,
     auditorPublicKeys |-> <<>>,
     auditorsU8PublicKeys |-> <<>>,
     auditorsDList |-> <<>>,
     encryptedActualBalance |-> <<>>,
     chunkedAmountToTransfer |-> <<>>,
     chunkedBalanceAfterTransfer |-> <<>>,
     amountToTransfer |-> 0,
     balanceAfterTransfer |-> 0,
     encryptedActualBalanceAfterTransfer |-> <<>>,
     encryptedAmountByRecipient |-> <<>>,
     randomness |-> <<>>]

\* this.f is not undefined
Has(this, f) == f \in this.assigned

\* a constructor or method that threw e and left the object as this
Threw(e, this) ==
    [err |-> e, this |-> this, val |-> <<>>, arrays |-> <<>>, p |-> 0]

\* a constructor or method that returned val and left the object as this
Returned(val, this) ==
    [err |-> NoError, this |-> this, val |-> val, arrays |-> <<>>, p |-> 0]

\* a method that returned val after the hash answered p to the query arrays
ReturnedHashed(val, this, arrays, p) ==
    [err |-> NoError, this |-> this, val |-> val, arrays |-> arrays, p |-> p]

\* the first error of a list of results
firstError(list) ==
    list[CHOOSE i \in 1..Len(list) :
             /\ list[i].err # NoError
             /\ \A j \in 1..(i - 1) : list[j].err = NoError].err

\* the constructor, lines 68-74
constructorFields(twistedEd25519PrivateKey, encryptedActualBalance, amountToTransfer, recipientPublicKey, auditorPublicKeys) ==
    [NewObject EXCEPT
        !.twistedEd25519PrivateKey = twistedEd25519PrivateKey,
        !.encryptedActualBalance = encryptedActualBalance,
        !.amountToTransfer = amountToTransfer,
        !.recipientPublicKey = recipientPublicKey,
        !.recipientPublicKeyU8 = recipientPublicKey,
        !.auditorPublicKeys = auditorPublicKeys,
        !.auditorsU8PublicKeys = auditorPublicKeys,
        !.assigned = {"twistedEd25519PrivateKey", "encryptedActualBalance",
                      "amountToTransfer", "recipientPublicKey",
                      "recipientPublicKeyU8", "auditorPublicKeys",
                      "auditorsU8PublicKeys"}]

\* the constructor, lines 75-78: this.auditorsDList
constructorAuditorsDList(this) ==
    LET DList == [k \in 1..Len(this.auditorsU8PublicKeys) |->
                     [i \in 1..Len(this.randomness) |->
                         toRawBytes(multiply(fromHex(this.auditorsU8PublicKeys[k]),
                                             this.randomness[i]))]]
    IN  IF this.auditorsU8PublicKeys = <<>>
        THEN Returned(<<>>, [this EXCEPT !.auditorsDList = <<>>,
                                         !.assigned = @ \cup {"auditorsDList"}])
        ELSE IF ~IsPoint(fromHex(this.auditorsU8PublicKeys[1]))
        THEN Threw("NobleError", this)
        ELSE IF ~Has(this, "randomness")
        THEN Threw("TypeError", this)
        ELSE IF \E k \in 1..Len(DList) : ~AllPoints(DList[k])
        THEN Threw("NobleError", this)
        ELSE Returned(<<>>, [this EXCEPT !.auditorsDList = DList,
                                         !.assigned = @ \cup {"auditorsDList"}])

\* the constructor, lines 79-80: the chunks of the amount and of the balance
\* after the transfer
constructorChunks(this) ==
    LET this79 == [this EXCEPT
                      !.chunkedAmountToTransfer =
                          amountToChunks(this.amountToTransfer,
                                         VEILED_BALANCE_CHUNK_SIZE),
                      !.assigned = @ \cup {"chunkedAmountToTransfer"}]
    IN  IF ~Has(this79, "balanceAfterTransfer")
        THEN Threw("TypeError", this79)
        ELSE Returned(<<>>,
                 [this79 EXCEPT
                     !.chunkedBalanceAfterTransfer =
                         amountToChunks(this79.balanceAfterTransfer,
                                        VEILED_BALANCE_CHUNK_SIZE),
                     !.assigned = @ \cup {"chunkedBalanceAfterTransfer"}])

\* the constructor, lines 81-83: this.encryptedAmountByRecipient
constructorEncryptedAmount(this) ==
    LET list == [i \in 1..Len(this.chunkedAmountToTransfer) |->
                    encryptWithBigintRandom(this.chunkedAmountToTransfer[i],
                                            this.recipientPublicKeyU8,
                                            this.randomness[i])]
    IN  IF this.chunkedAmountToTransfer = <<>>
        THEN Returned(<<>>, [this EXCEPT
                                 !.encryptedAmountByRecipient = <<>>,
                                 !.assigned = @ \cup {"encryptedAmountByRecipient"}])
        ELSE IF ~Has(this, "randomness")
        THEN Threw("TypeError", this)
        ELSE IF \E i \in 1..Len(list) : list[i].err # NoError
        THEN Threw(firstError(list), this)
        ELSE Returned(<<>>, [this EXCEPT
                                 !.encryptedAmountByRecipient =
                                     [i \in 1..Len(list) |-> Ciphertext(list[i])],
                                 !.assigned = @ \cup {"encryptedAmountByRecipient"}])

\* new VeiledTransfer(twistedEd25519PrivateKey, encryptedActualBalance,
\* amountToTransfer, recipientPublicKey, auditorPublicKeys, randomness), with
\* generated the list ed25519GenListOfRandom returns: the error thrown, if any,
\* and the object as the constructor left it
VeiledTransferConstructor(twistedEd25519PrivateKey, encryptedActualBalance, amountToTransfer, recipientPublicKey, auditorPublicKeys, randomness, generated) ==
    LET s74 == constructorFields(twistedEd25519PrivateKey, encryptedActualBalance,
                                 amountToTransfer, recipientPublicKey,
                                 auditorPublicKeys)
        s78 == constructorAuditorsDList(s74)
        s80 == constructorChunks(s78.this)
        s83 == constructorEncryptedAmount(s80.this)
    IN  IF s78.err # NoError THEN s78
        ELSE IF s80.err # NoError THEN s80
        ELSE IF s83.err # NoError THEN s83
        ELSE Returned(<<>>, [s83.this EXCEPT
                                 !.randomness = IF randomness.given
                                                THEN randomness.list
                                                ELSE generated,
                                 !.assigned = @ \cup {"randomness"}])

\* init() without its first statement, the isInitialized guard
InitUnguarded(this) ==
    LET decrypted == [i \in 1..Len(this.encryptedActualBalance) |->
                         decryptWithPK(this.encryptedActualBalance[i],
                                       this.twistedEd25519PrivateKey,
                                       Range(0, InitDecryptEnd))]
        decryptedBalance == chunksToAmount([i \in 1..Len(decrypted) |->
                                               decrypted[i].val])
        this182 == [this EXCEPT
                       !.balanceAfterTransfer = decryptedBalance - this.amountToTransfer,
                       !.assigned = @ \cup {"balanceAfterTransfer"}]
    IN  IF \E i \in 1..Len(decrypted) : decrypted[i].err # NoError
        THEN Threw(firstError(decrypted), this)
        ELSE IF ~Has(this182, "randomness")
        THEN Threw("TypeError", this182)
        ELSE Threw("RandomBytes", this182)

\* VeiledTransfer.init()
init(this) ==
    LET decrypted == [i \in 1..Len(this.encryptedActualBalance) |->
                         decryptWithPK(this.encryptedActualBalance[i],
                                       this.twistedEd25519PrivateKey,
                                       Range(0, InitDecryptEnd))]
        decryptedBalanceChunks == [i \in 1..Len(decrypted) |-> decrypted[i].val]
        decryptedBalance == chunksToAmount(decryptedBalanceChunks)
        balanceAfterTransfer == decryptedBalance - this.amountToTransfer
        this182 == [this EXCEPT !.balanceAfterTransfer = balanceAfterTransfer,
                                !.assigned = @ \cup {"balanceAfterTransfer"}]
        chunkedBalanceAfterWithdraw ==
            amountToChunks(balanceAfterTransfer, VEILED_BALANCE_CHUNK_SIZE)
        list == [i \in 1..Len(chunkedBalanceAfterWithdraw) |->
                    encryptWithBigintRandom(chunkedBalanceAfterWithdraw[i],
                                            publicKey(this.twistedEd25519PrivateKey),
                                            this.randomness[i])]
    IN  IF ~this.isInitialized
        THEN Threw("NotInitialized", this)
        ELSE IF \E i \in 1..Len(decrypted) : decrypted[i].err # NoError
        THEN Threw(firstError(decrypted), this)
        ELSE IF ~Has(this182, "randomness")
        THEN Threw("TypeError", this182)
        ELSE IF \E i \in 1..Len(list) : list[i].err # NoError
        THEN Threw(firstError(list), this182)
        ELSE Returned(<<>>,
                 [this182 EXCEPT
                     !.encryptedActualBalanceAfterTransfer =
                         [i \in 1..Len(list) |-> Ciphertext(list[i])],
                     !.isInitialized = TRUE,
                     !.assigned = @ \cup {"encryptedActualBalanceAfterTransfer"}])

\* 2n ** (BigInt(i) * CHUNK_BITS_BI) for the chunk at position i, the first
\* chunk at position 1
coef(i) == ChunkSize ^ (i - 1)

\* P.multiply(coef): the source's coefficients, at most 2^96, are below the
\* group order, which a small group keeps true by reducing them; no power of
\* two is a multiple of the odd order
multiplyCoef(P, i) == multiply(P, coef(i) % CURVE_n)

\* list.reduce((acc, P, i) => acc.add(P.multiply(coef)), ZERO), from position i
RECURSIVE weightedSum(_, _)
weightedSum(points, i) ==
    IF i > Len(points) THEN ZERO
    ELSE add(multiplyCoef(points[i], i), weightedSum(points, i + 1))

\* list.map(({ C, D }) => [C.toRawBytes(), D.toRawBytes()]).flat()
flatCD(list) ==
    [j \in 1..(2 * Len(list)) |->
        IF j % 2 = 1 THEN toRawBytes(list[(j + 1) \div 2].C)
        ELSE toRawBytes(list[j \div 2].D)]

\* lists.flat()
RECURSIVE flat(_)
flat(lists) ==
    IF lists = <<>> THEN <<>> ELSE Head(lists) \o flat(Tail(lists))

\* the D components, the C components of a list of ciphertexts
DList(list) == [i \in 1..Len(list) |-> list[i].D]
CList(list) == [i \in 1..Len(list) |-> list[i].C]

\* VeiledTransfer.FIAT_SHAMIR_SIGMA_DST
TRANSFER_FIAT_SHAMIR_SIGMA_DST == "AptosVeiledCoin/TransferSubproofFiatShamir"

\* VeiledTransfer.genSigmaProof() from its second statement on, with x1, x2,
\* x3List, x4List, x5, x6List the values ed25519GenRandom and
\* ed25519GenListOfRandom return and fresh the hash of a new query.  Line 210
\* decodes the bytes of the private key as the sender's public key point.
genSigmaProofChecked(this, x1, x2, x3List, x4List, x5, x6List, fresh) ==
    LET senderPKRistretto == fromHex(this.twistedEd25519PrivateKey)
        recipientPKRistretto == fromHex(this.recipientPublicKeyU8)
        encrypted == [i \in 1..Len(this.chunkedBalanceAfterTransfer) |->
                         encryptWithBigintRandom(
                             this.chunkedBalanceAfterTransfer[i],
                             publicKey(this.twistedEd25519PrivateKey),
                             this.randomness[i])]
        newEncryptedBalance == [i \in 1..Len(encrypted) |-> Ciphertext(encrypted[i])]
        DBal == weightedSum(DList(this.encryptedActualBalance), 1)
        DNewBal == weightedSum(DList(newEncryptedBalance), 1)
        X1 == toRawBytes(subtract(add(multiply(BASE, x1), multiply(DBal, x2)),
                                  multiply(DNewBal, x2)))
        X2List == [i \in 1..Len(x3List) |->
                      toRawBytes(multiply(senderPKRistretto, x3List[i]))]
        X3List == [i \in 1..Len(x3List) |->
                      toRawBytes(multiply(recipientPKRistretto, x3List[i]))]
        X4List == [i \in 1..Len(x4List) |->
                      toRawBytes(add(multiply(BASE, x4List[i]),
                                     multiply(H_RISTRETTO, x3List[i])))]
        X5 == toRawBytes(multiply(H_RISTRETTO, x5))
        X6List == [i \in 1..Len(x6List) |->
                      toRawBytes(add(multiply(BASE, x6List[i]),
                                     multiply(H_RISTRETTO, x3List[i])))]
        X7List == [k \in 1..Len(this.auditorsU8PublicKeys) |->
                      [i \in 1..Len(x3List) |->
                          toRawBytes(multiply(fromHex(this.auditorsU8PublicKeys[k]),
                                              x3List[i]))]]
        arrays == <<TRANSFER_FIAT_SHAMIR_SIGMA_DST, toRawBytes(BASE),
                    toRawBytes(H_RISTRETTO),
                    publicKey(this.twistedEd25519PrivateKey),
                    this.recipientPublicKeyU8>>
                  \o flatCD(this.encryptedActualBalance)
                  \o flatCD(newEncryptedBalance)
                  \o flatCD(this.encryptedAmountByRecipient)
                  \o flat(this.auditorsDList)
                  \o <<X1>> \o X2List \o X3List \o X4List \o <<X5>> \o X6List
                  \o flat(X7List)
        p == genFiatShamirChallenge(arrays, fresh)
        sLE == this.twistedEd25519PrivateKey
        invertSLE == invertN(sLE)
        alpha1 == modN(x1 - p * this.balanceAfterTransfer)
        alpha2 == modN(x2 - p * sLE)
        alpha3List == [i \in 1..Len(x3List) |->
                          modN(x3List[i] - p * this.randomness[i])]
        alpha4List == [i \in 1..Len(x4List) |->
                          modN(x4List[i] - p * this.chunkedAmountToTransfer[i])]
        alpha5 == modN(x5 - p * invertSLE)
        alpha6List == [i \in 1..Len(x6List) |->
                          modN(x6List[i] - p * this.chunkedBalanceAfterTransfer[i])]
    IN  IF Has(this, "randomness")
           /\ Len(this.randomness) # VEILED_BALANCE_CHUNK_SIZE
        THEN Threw("RandomnessLength", this)
        ELSE IF this.amountToTransfer > 2 ^ (2 * ChunkBitsBound) - 1
        THEN Threw("AmountTooLarge", this)
        ELSE IF ~Has(this, "balanceAfterTransfer") \/ this.balanceAfterTransfer = 0
        THEN Threw("BalanceNotDefined", this)
        ELSE IF ~IsPoint(senderPKRistretto) \/ ~IsPoint(recipientPKRistretto)
        THEN Threw("NobleError", this)
        ELSE IF ~Has(this, "chunkedBalanceAfterTransfer")
                \/ (this.chunkedBalanceAfterTransfer # <<>>
                    /\ ~Has(this, "randomness"))
        THEN Threw("TypeError", this)
        ELSE IF \E i \in 1..Len(encrypted) : encrypted[i].err # NoError
        THEN Threw(firstError(encrypted), this)
        ELSE IF ~AllPoints(<<X1, X5>> \o X2List \o X3List \o X4List \o X6List
                           \o flat(X7List))
        THEN Threw("NobleError", this)
        ELSE IF ~Has(this, "encryptedAmountByRecipient")
                \/ ~Has(this, "auditorsDList")
        THEN Threw("TypeError", this)
        ELSE ReturnedHashed(
                 [alpha1 |-> alpha1, alpha2 |-> alpha2,
                  alpha3List |-> alpha3List, alpha4List |-> alpha4List,
                  alpha5 |-> alpha5, alpha6List |-> alpha6List,
                  X1 |-> X1, X2List |-> X2List, X3List |-> X3List,
                  X4List |-> X4List, X5 |-> X5, X6List |-> X6List,
                  X7List |-> flat(X7List)],
                 this, arrays, p)

GenSigmaProofUnguarded(this, x1, x2, x3List, x4List, x5, x6List, fresh) ==
    genSigmaProofChecked(this, x1, x2, x3List, x4List, x5, x6List, fresh)

\* VeiledTransfer.genSigmaProof()
genSigmaProof(this, x1, x2, x3List, x4List, x5, x6List, fresh) ==
    IF ~this.isInitialized
    THEN Threw("NotInitialized", this)
    ELSE genSigmaProofChecked(this, x1, x2, x3List, x4List, x5, x6List, fresh)

\* auditorDecryptionKeys[pkI][i], undefined outside the lists
decryptionKeyAt(auditorDecryptionKeys, pkI, i) ==
    IF pkI <= Len(auditorDecryptionKeys)
       /\ i <= Len(auditorDecryptionKeys[pkI])
    THEN auditorDecryptionKeys[pkI][i]
    ELSE Thrown

\* list[i], undefined outside the list
elementAt(list, i) == IF i \in 1..Len(list) THEN list[i] ELSE Thrown

\* the query verifySigmaProof makes of the hash
transferBuilderQuery(this, sigmaProof, opts) ==
    <<TRANSFER_FIAT_SHAMIR_SIGMA_DST, toRawBytes(BASE), toRawBytes(H_RISTRETTO),
      publicKey(this.twistedEd25519PrivateKey), this.recipientPublicKey>>
    \o flatCD(this.encryptedActualBalance)
    \o flatCD(this.encryptedActualBalanceAfterTransfer)
    \o flatCD(this.encryptedAmountByRecipient)
    \o flat(IF opts.hasAuditors THEN opts.decryptionKeys ELSE <<>>)
    \o <<sigmaProof.X1>> \o sigmaProof.X2List \o sigmaProof.X3List
    \o sigmaProof.X4List \o <<sigmaProof.X5>> \o sigmaProof.X6List
    \o sigmaProof.X7List

\* VeiledTransfer.verifySigmaProof(sigmaProof, opts), with fresh the hash of a
\* new query
verifySigmaProof(this, sigmaProof, opts, fresh) ==
    LET after == this.encryptedActualBalanceAfterTransfer
        byRecipient == this.encryptedAmountByRecipient
        auditorPKs == IF opts.hasAuditors THEN opts.publicKeys ELSE <<>>
        auditorDecryptionKeys ==
            IF opts.hasAuditors THEN opts.decryptionKeys ELSE <<>>
        proofX7List == sigmaProof.X7List
        alpha1LE == sigmaProof.alpha1
        alpha2LE == sigmaProof.alpha2
        alpha3LEList == sigmaProof.alpha3List
        alpha4LEList == sigmaProof.alpha4List
        alpha5LE == sigmaProof.alpha5
        alpha6LEList == sigmaProof.alpha6List
        senderPublicKeyU8 == publicKey(this.twistedEd25519PrivateKey)
        recipientPublicKeyU8 == this.recipientPublicKey
        senderPKRistretto == fromHex(senderPublicKeyU8)
        recipientPKRistretto == fromHex(recipientPublicKeyU8)
        arrays == transferBuilderQuery(this, sigmaProof, opts)
        p == genFiatShamirChallenge(arrays, fresh)
        alpha1G == multiply(BASE, alpha1LE)
        oldDSum == weightedSum(DList(this.encryptedActualBalance), 1)
        oldCSum == weightedSum(CList(this.encryptedActualBalance), 1)
        newDSum == weightedSum(DList(after), 1)
        amountCSum == weightedSum(CList(byRecipient), 1)
        X1 == subtract(add(subtract(add(alpha1G, multiply(oldDSum, alpha2LE)),
                                    multiply(newDSum, alpha2LE)),
                           multiply(oldCSum, p)),
                       multiply(amountCSum, p))
        X2List == [i \in 1..Len(alpha3LEList) |->
                      add(multiply(senderPKRistretto, alpha3LEList[i]),
                          multiply(elementAt(DList(after), i), p))]
        X3List == [i \in 1..Len(alpha3LEList) |->
                      add(multiply(recipientPKRistretto, alpha3LEList[i]),
                          multiply(elementAt(DList(byRecipient), i), p))]
        X4List == [i \in 1..Len(alpha4LEList) |->
                      add(add(multiply(BASE, alpha4LEList[i]),
                              multiply(H_RISTRETTO, elementAt(alpha3LEList, i))),
                          multiply(elementAt(CList(byRecipient), i), p))]
        X5 == add(multiply(H_RISTRETTO, alpha5LE), multiply(senderPKRistretto, p))
        X6List == [i \in 1..Len(alpha6LEList) |->
                      add(add(multiply(BASE, alpha6LEList[i]),
                              multiply(H_RISTRETTO, elementAt(alpha3LEList, i))),
                          multiply(elementAt(CList(after), i), p))]
        X7List == [pkI \in 1..Len(auditorPKs) |->
                      [i \in 1..Len(alpha3LEList) |->
                          add(multiply(fromHex(auditorPKs[pkI]), alpha3LEList[i]),
                              multiply(fromHex(decryptionKeyAt(auditorDecryptionKeys,
                                                               pkI, i)), p))]]
        flatX7 == flat(X7List)
        pairs == <<<<X1, sigmaProof.X1>>>>
                 \o [i \in 1..Len(X2List) |->
                        <<X2List[i], elementAt(sigmaProof.X2List, i)>>]
                 \o [i \in 1..Len(X3List) |->
                        <<X3List[i], elementAt(sigmaProof.X3List, i)>>]
                 \o [i \in 1..Len(X4List) |->
                        <<X4List[i], elementAt(sigmaProof.X4List, i)>>]
                 \o <<<<X5, sigmaProof.X5>>>>
                 \o [i \in 1..Len(X6List) |->
                        <<X6List[i], elementAt(sigmaProof.X6List, i)>>]
                 \o [i \in 1..Len(flatX7) |->
                        <<flatX7[i], elementAt(proofX7List, i)>>]
        verdict == everyEquals(pairs, arrays, p)
    IN  IF ~Has(this, "encryptedActualBalanceAfterTransfer")
        THEN Threw("AfterTransferNotDefined", this)
        ELSE IF ~Has(this, "encryptedAmountByRecipient")
        THEN Threw("TypeError", this)
        ELSE IF ~AllPoints(<<X1, X5>> \o X2List \o X3List \o X4List \o X6List
                           \o flatX7)
        THEN Threw("NobleError", this)
        ELSE IF verdict.err # NoError
        THEN Threw(verdict.err, this)
        ELSE ReturnedHashed(verdict.ok, this, arrays, p)

-----------------------------------------------------------------------------
(* Range proofs.  The backend is a Bulletproofs prover and verifier: a     *)
(* proof is represented by the statement it proves and whether the value   *)
(* committed to is in range, and the verifier accepts the proofs of true   *)
(* statements about the commitment and bases it is given.                  *)

\* the scalar multiple of the backend, defined for every scalar
scalarMul(P, k) == IF IsPoint(P) THEN (P * (k % CURVE_n)) % CURVE_n ELSE Thrown

\* opts.bits ?? 32: the width of a chunk
DefaultBits == ChunkBitsBound

\* range_proof(v, r, val_base, rand_base, bits) of the backend
range_proof(v, r, valBase, randBase, bits) ==
    LET comm == add(scalarMul(fromHex(valBase), v), scalarMul(fromHex(randBase), r))
    IN  IF ~IsPoint(comm)
        THEN [err |-> "BackendError", proof |-> <<>>, commitment |-> Thrown]
        ELSE [err |-> NoError,
              proof |-> [commitment |-> comm, valBase |-> valBase,
                         randBase |-> randBase, bits |-> bits,
                         inRange |-> v \in 0..(2 ^ bits - 1)],
              commitment |-> comm]

\* verify_proof(proof, commitment, val_base, rand_base, bits) of the backend
verify_proof(proof, commitment, valBase, randBase, bits) ==
    /\ proof.inRange
    /\ proof.commitment = commitment
    /\ proof.valBase = valBase
    /\ proof.randBase = randBase
    /\ proof.bits = bits

\* generateRangeZKP(opts)
generateRangeZKP(v, r, valBase, randBase) ==
    range_proof(v, r, valBase, randBase, DefaultBits)

\* verifyRangeZKP(opts)
verifyRangeZKP(proof, commitment, valBase, randBase) ==
    verify_proof(proof, commitment, valBase, randBase, DefaultBits)

\* genRangeProof with Promise.allSettled in place of Promise.all: it returns
\* the proofs of the backend calls that could be made and completed
GenRangeProofSettled(this) ==
    LET ready == /\ this.isInitialized
                 /\ Has(this, "randomness")
                 /\ Has(this, "encryptedActualBalanceAfterTransfer")
        amountChunks == IF ready
                        THEN amountToChunks(this.amountToTransfer,
                                            VEILED_BALANCE_CHUNK_SIZE)
                        ELSE <<>>
        settled == [i \in 1..Len(amountChunks) |->
                       generateRangeZKP(amountChunks[i], this.randomness[i],
                                        toRawBytes(BASE), toRawBytes(H_RISTRETTO))]
        fulfilled == SelectSeq(settled, LAMBDA r : r.err = NoError)
    IN  Returned([rangeProofAmount |->
                      [i \in 1..Len(fulfilled) |-> fulfilled[i].proof],
                  rangeProofNewBalance |-> <<>>],
                 this)

\* VeiledTransfer.genRangeProof()
genRangeProof(this) ==
    LET amountChunks == amountToChunks(this.amountToTransfer,
                                       VEILED_BALANCE_CHUNK_SIZE)
        balanceChunks == amountToChunks(this.balanceAfterTransfer,
                                        VEILED_BALANCE_CHUNK_SIZE)
        after == this.encryptedActualBalanceAfterTransfer
        rangeProofAmount ==
            [i \in 1..Len(amountChunks) |->
                generateRangeZKP(amountChunks[i], this.randomness[i],
                                 toRawBytes(BASE), toRawBytes(H_RISTRETTO))]
        rangeProofNewBalance ==
            [i \in 1..Len(balanceChunks) |->
                generateRangeZKP(balanceChunks[i], this.twistedEd25519PrivateKey,
                                 toRawBytes(BASE),
                                 toRawBytes(elementAt(DList(after), i)))]
    IN  IF ~this.isInitialized
        THEN Threw("NotInitialized", this)
        ELSE IF ~Has(this, "encryptedActualBalanceAfterTransfer")
        THEN Threw("AfterTransferNotDefined", this)
        ELSE IF ~Has(this, "balanceAfterTransfer") \/ this.balanceAfterTransfer = 0
        THEN Threw("BalanceNotDefined", this)
        ELSE IF ~Has(this, "randomness")
                \/ Len(this.randomness) < Len(amountChunks)
                \/ Len(after) < Len(balanceChunks)
        THEN Threw("TypeError", this)
        ELSE IF \E i \in 1..Len(rangeProofAmount) :
                    rangeProofAmount[i].err # NoError
        THEN Threw(firstError(rangeProofAmount), this)
        ELSE IF \E i \in 1..Len(rangeProofNewBalance) :
                    rangeProofNewBalance[i].err # NoError
        THEN Threw(firstError(rangeProofNewBalance), this)
        ELSE Returned(
                 [rangeProofAmount |->
                      [i \in 1..Len(rangeProofAmount) |-> rangeProofAmount[i].proof],
                  rangeProofNewBalance |->
                      [i \in 1..Len(rangeProofNewBalance) |->
                          rangeProofNewBalance[i].proof]],
                 this)

\* VeiledTransfer.verifyRangeProof(opts)
verifyRangeProof(this, opts) ==
    LET after == this.encryptedActualBalanceAfterTransfer
        byRecipient == this.encryptedAmountByRecipient
        amountValid ==
            [i \in 1..Len(opts.rangeProofAmount) |->
                verifyRangeZKP(opts.rangeProofAmount[i],
                               toRawBytes(byRecipient[i].C),
                               toRawBytes(BASE), toRawBytes(H_RISTRETTO))]
        newBalanceValid ==
            [i \in 1..Len(opts.rangeProofNewBalance) |->
                verifyRangeZKP(opts.rangeProofNewBalance[i],
                               toRawBytes(after[i].C),
                               toRawBytes(BASE), toRawBytes(after[i].D))]
        rangeProofsValidations == amountValid \o newBalanceValid
    IN  IF ~this.isInitialized
        THEN Threw("NotInitialized", this)
        ELSE IF ~Has(this, "encryptedActualBalanceAfterTransfer")
        THEN Threw("AfterTransferNotDefined", this)
        ELSE IF (opts.rangeProofAmount # <<>>
                 /\ ~Has(this, "encryptedAmountByRecipient"))
                \/ Len(opts.rangeProofAmount) > Len(byRecipient)
                \/ Len(opts.rangeProofNewBalance) > Len(after)
        THEN Threw("TypeError", this)
        ELSE Returned(\A i \in 1..Len(rangeProofsValidations) :
                          rangeProofsValidations[i],
                      this)

-----------------------------------------------------------------------------
(* The transfer builder as a state machine: key is the sender's key, xm    *)
(* the sender's balance, x its chunk-wise encryption, and vt the object    *)
(* the last constructor call worked on.  A constructor that throws hands   *)
(* no object to its caller; the methods are run on the object it was       *)
(* building, which has the fields it had assigned, to say what they do on  *)
(* a builder in that state.                                                *)

\* balances of one and of two chunks
TransferBalances == 0..(ChunkSize + MaxBalance)

\* the chunk-wise encryption of a balance, as the tests build it
encryptChunks(balance, pk, random) ==
    LET chunks == amountToChunks(balance, VEILED_BALANCE_CHUNK_SIZE)
    IN  [i \in 1..Len(chunks) |-> Ciphertext(encryptWithPK(chunks[i], pk, random))]

\* the caller's randomness argument: omitted, or a list of scalars
NoRandomness == [given |-> FALSE, list |-> <<>>]
RandomnessArgs ==
    {NoRandomness,
     [given |-> TRUE, list |-> [i \in 1..VEILED_BALANCE_CHUNK_SIZE |-> 1]],
     [given |-> TRUE, list |-> <<1>>]}

\* a sigma proof by its shape, with every scalar and every point the same
SampleSigmaProof(a, X, auditors) ==
    LET four(v) == [i \in 1..VEILED_BALANCE_CHUNK_SIZE |-> v]
    IN  [alpha1 |-> a, alpha2 |-> a, alpha3List |-> four(a),
         alpha4List |-> four(a), alpha5 |-> a, alpha6List |-> four(a),
         X1 |-> X, X2List |-> four(X), X3List |-> four(X), X4List |-> four(X),
         X5 |-> X, X6List |-> four(X),
         X7List |-> [i \in 1..(VEILED_BALANCE_CHUNK_SIZE * auditors) |-> X]]

\* the auditors a verifier names: none, or their keys with their D lists
AuditorOpts ==
    {[hasAuditors |-> FALSE, publicKeys |-> <<>>, decryptionKeys |-> <<>>]}
    \cup {[hasAuditors |-> TRUE,
           publicKeys |-> [i \in 1..Len(a) |-> publicKey(a[i])],
           decryptionKeys |->
               [i \in 1..Len(a) |->
                   [j \in 1..VEILED_BALANCE_CHUNK_SIZE |-> publicKey(a[i])]]] :
          a \in AuditorLists \ {<<>>}}

\* range proofs by their shape
SampleRangeProofs ==
    LET proof == range_proof(1, 1, toRawBytes(BASE), toRawBytes(H_RISTRETTO),
                             DefaultBits).proof
    IN  {[rangeProofAmount |-> <<>>, rangeProofNewBalance |-> <<>>],
         [rangeProofAmount |-> <<proof>>, rangeProofNewBalance |-> <<proof>>]}

\* a call op(args) on the object this
TransferCall(op, this, args) == [op |-> op, this |-> this, args |-> args]

\* what a call handed to its caller
Outcome(res) == [err |-> res.err, val |-> res.val]

\* an object exists
Built == vt # NoObject

InitTransfer ==
    /\ key \in Keys
    /\ xm \in TransferBalances
    /\ xr = 1
    /\ x = encryptChunks(xm, publicKey(key), xr)
    /\ call = Call("idle", 0, 0, 0, 0, 0, NoCiphertext)
    /\ ret = RetAmount(0, 0)
    /\ oracle = {}
    /\ vt = NoObject
    /\ chain = NoChain
    /\ proc = NoCall

\* the amounts a caller asks to transfer: within the balance, one above it,
\* a negative one and the least one that does not fit two chunks
TransferAmounts == (0..(xm + 1)) \cup {0 - 1, 2 ^ (2 * ChunkBitsBound)}

\* new VeiledTransfer(key, x, amount, recipient, auditors, randomness)
Construct ==
    /\ Idle
    /\ \E amount \in TransferAmounts, auditors \in AuditorLists,
          randomness \in RandomnessArgs :
          LET args == [twistedEd25519PrivateKey |-> key,
                       encryptedActualBalance |-> x,
                       amountToTransfer |-> amount,
                       recipientPublicKey |-> publicKey(Receiver(key)),
                       auditorPublicKeys |->
                           [i \in 1..Len(auditors) |-> publicKey(auditors[i])],
                       randomness |-> randomness]
              res == VeiledTransferConstructor(
                         args.twistedEd25519PrivateKey,
                         args.encryptedActualBalance, args.amountToTransfer,
                         args.recipientPublicKey, args.auditorPublicKeys,
                         args.randomness,
                         [i \in 1..VEILED_BALANCE_CHUNK_SIZE |-> 1])
          IN  /\ call' = TransferCall("constructor", NewObject, args)
              /\ ret' = Outcome(res)
              /\ vt' = res.this
    /\ UNCHANGED <<chain, proc, key, x, xm, xr, oracle>>

\* vt.init()
CallInit ==
    /\ Idle
    /\ Built
    /\ call' = TransferCall("init", vt, <<>>)
    /\ ret' = Outcome(init(vt))
    /\ vt' = init(vt).this
    /\ UNCHANGED <<chain, proc, key, x, xm, xr, oracle>>

\* the values the random generators return to a call that gets to them
NoncesOf(this) == IF this.isInitialized THEN Nonces ELSE {1}

\* vt.genSigmaProof()
GenSigmaProof ==
    /\ Idle
    /\ Built
    /\ \E x1, x2, x5 \in NoncesOf(vt), xList \in NoncesOf(vt), fresh \in Challenges :
          LET list == [i \in 1..VEILED_BALANCE_CHUNK_SIZE |-> xList]
              res == genSigmaProof(vt, x1, x2, list, list, x5, list, fresh)
          IN  /\ (res.err # NoError \/ Hashed(res.arrays)) => fresh = 0
              /\ call' = TransferCall("genSigmaProof", vt, <<>>)
              /\ ret' = Outcome(res)
              /\ vt' = res.this
              /\ oracle' = Answered(res)
    /\ UNCHANGED <<chain, proc, key, x, xm, xr>>

\* vt.verifySigmaProof(sigmaProof, opts) of the proof genSigmaProof has just
\* returned, or of other bytes
VerifySigmaProof ==
    /\ Idle \/ call.op = "genSigmaProof"
    /\ Built
    /\ \E opts \in AuditorOpts, a \in {1, 2}, fresh \in Challenges,
          n \in 0..1 :
          LET generated == call.op = "genSigmaProof" /\ ret.err = NoError
              sigmaProof == IF generated THEN ret.val
                            ELSE SampleSigmaProof(a, BASE, n * Len(opts.publicKeys))
              res == verifySigmaProof(vt, sigmaProof, opts, fresh)
          IN  /\ generated => (a = 1 /\ n = 0)
              /\ (res.err # NoError \/ Hashed(res.arrays)) => fresh = 0
              /\ call' = TransferCall("verifySigmaProof", vt,
                                      [sigmaProof |-> sigmaProof, opts |-> opts,
                                       generated |-> generated])
              /\ ret' = Outcome(res)
              /\ vt' = res.this
              /\ oracle' = Answered(res)
    /\ UNCHANGED <<chain, proc, key, x, xm, xr>>

\* vt.genRangeProof()
GenRangeProof ==
    /\ Idle
    /\ Built
    /\ call' = TransferCall("genRangeProof", vt, <<>>)
    /\ ret' = Outcome(genRangeProof(vt))
    /\ vt' = genRangeProof(vt).this
    /\ UNCHANGED <<chain, proc, key, x, xm, xr, oracle>>

\* vt.verifyRangeProof(opts)
VerifyRangeProof ==
    /\ Idle
    /\ Built
    /\ \E opts \in SampleRangeProofs :
          /\ call' = TransferCall("verifyRangeProof", vt, opts)
          /\ ret' = Outcome(verifyRangeProof(vt, opts))
          /\ vt' = verifyRangeProof(vt, opts).this
    /\ UNCHANGED <<chain, proc, key, x, xm, xr, oracle>>

NextTransfer ==
    \/ Construct
    \/ CallInit
    \/ GenSigmaProof
    \/ VerifySigmaProof
    \/ GenRangeProof
    \/ VerifyRangeProof
    \/ Resume

SpecTransfer == InitTransfer /\ [][NextTransfer]_vars

-----------------------------------------------------------------------------
(* Claims about the transfer builder *)

\* arguments the constructor's contract allows: an amount within the balance
\* and below 2^(2 * CHUNK_BITS), and no randomness or one scalar per chunk
ValidArgs(args) ==
    /\ args.amountToTransfer \in 0..xm
    /\ args.amountToTransfer < 2 ^ (2 * ChunkBitsBound)
    /\ args.randomness.given =>
           Len(args.randomness.list) = VEILED_BALANCE_CHUNK_SIZE

\* a builder of the caller's key and balance with an amount within the balance
ValidTransfer(this) ==
    /\ this.twistedEd25519PrivateKey = key
    /\ this.encryptedActualBalance = x
    /\ this.amountToTransfer \in 0..xm
    /\ this.amountToTransfer < 2 ^ (2 * ChunkBitsBound)

\* the verifier names the auditors the builder was made for, with their D lists
SamePublicInputs(this, opts) ==
    /\ (IF opts.hasAuditors THEN opts.publicKeys ELSE <<>>)
           = this.auditorsU8PublicKeys
    /\ (IF opts.hasAuditors THEN opts.decryptionKeys ELSE <<>>)
           = this.auditorsDList

\* C6: for a VeiledTransfer built from a valid key, a balance encrypted under
\* the sender's key, an amount within the balance and below 2^64, a recipient
\* key and any auditors, genSigmaProof returns a proof and verifySigmaProof
\* over the same public inputs accepts it.
C6_Completeness ==
    /\ (call.op = "genSigmaProof" /\ ValidTransfer(call.this))
           => ret.err = NoError
    /\ (/\ call.op = "verifySigmaProof"
        /\ call.args.generated
        /\ ValidTransfer(call.this)
        /\ SamePublicInputs(call.this, call.args.opts))
           => (ret.err = NoError /\ ret.val = TRUE)

GuardedOps == {"genSigmaProof", "genRangeProof", "verifyRangeProof"}

\* C9: on a VeiledTransfer with isInitialized = false, genSigmaProof,
\* genRangeProof and verifyRangeProof each fail with the not-initialized error,
\* return no proof and leave every field of the builder as it was.
C9_LifecycleGuard ==
    (call.op \in GuardedOps /\ ~call.this.isInitialized)
        => (/\ ret.err = "NotInitialized"
            /\ ret.val = <<>>
            /\ vt = call.this)

\* genSigmaProof has been called on an object whose constructor had assigned
\* the amount and the keys and whose isInitialized is false, and has failed
\* with the not-initialized error
C9_Witness ==
    /\ call.op = "genSigmaProof"
    /\ ~call.this.isInitialized
    /\ {"amountToTransfer", "twistedEd25519PrivateKey", "recipientPublicKeyU8"}
           \subseteq call.this.assigned
    /\ call.this.amountToTransfer > 0
    /\ ret.err = "NotInitialized"
    /\ vt = call.this

\* C10: for a VeiledTransfer constructed with valid arguments the constructor
\* completes, init() completes without error and sets isInitialized, and
\* genSigmaProof then returns a proof.
C10_InitReachable ==
    /\ (call.op = "constructor" /\ ValidArgs(call.args)) => ret.err = NoError
    /\ (call.op = "init" /\ ValidTransfer(call.this))
           => (ret.err = NoError /\ vt.isInitialized)
    /\ (call.op = "genSigmaProof" /\ call.this.isInitialized)
           => ret.err = NoError

-----------------------------------------------------------------------------
(* The wire format of the Transfer sigma proof.  A byte string is the      *)
(* sequence of its bytes.                                                  *)

\* PROOF_CHUNK_SIZE: bytes of a scalar or point on the wire
PROOF_CHUNK_SIZE == 32

\* SIGMA_PROOF_TRANSFER_SIZE: the 33 fields of a proof without auditors
SIGMA_PROOF_TRANSFER_SIZE == PROOF_CHUNK_SIZE * 33

\* a static method that returned val
StaticReturned(val) == [err |-> NoError, val |-> val]

\* a static method that threw e
StaticThrew(e) == [err |-> e, val |-> <<>>]

\* concatBytes(...list)
RECURSIVE concatBytes(_)
concatBytes(list) ==
    IF list = <<>> THEN <<>> ELSE Head(list) \o concatBytes(Tail(list))

\* bytes.slice(begin, end) and bytes.subarray(begin, end), also of an array:
\* the elements at the 0-based positions begin..end-1 that exist
slice(bytes, begin, end) ==
    SubSeq(bytes, begin + 1, IF end < Len(bytes) THEN end ELSE Len(bytes))

\* the for loops of deserializeSigmaProof: bytes cut at every
\* PROOF_CHUNK_SIZE positions below length
chunksOf(bytes, length) ==
    [k \in 1..((length + PROOF_CHUNK_SIZE - 1) \div PROOF_CHUNK_SIZE) |->
        slice(bytes, (k - 1) * PROOF_CHUNK_SIZE, k * PROOF_CHUNK_SIZE)]

SerializeX5First(sigmaProof) ==
    concatBytes(<<sigmaProof.alpha1, sigmaProof.alpha2>>
                \o sigmaProof.alpha3List \o sigmaProof.alpha4List
                \o <<sigmaProof.alpha5>> \o sigmaProof.alpha6List
                \o <<sigmaProof.X1>> \o sigmaProof.X2List \o sigmaProof.X3List
                \o <<sigmaProof.X5>> \o sigmaProof.X4List
                \o sigmaProof.X6List \o sigmaProof.X7List)

\* VeiledTransfer.serializeSigmaProof(sigmaProof)
serializeSigmaProof(sigmaProof) ==
    concatBytes(<<sigmaProof.alpha1, sigmaProof.alpha2>>
                \o sigmaProof.alpha3List \o sigmaProof.alpha4List
                \o <<sigmaProof.alpha5>> \o sigmaProof.alpha6List
                \o <<sigmaProof.X1>> \o sigmaProof.X2List \o sigmaProof.X3List
                \o sigmaProof.X4List \o <<sigmaProof.X5>>
                \o sigmaProof.X6List \o sigmaProof.X7List)

\* VeiledTransfer.deserializeSigmaProof from line 119 on: the fields of a
\* byte string of an accepted length
deserializeFields(sigmaProof) ==
    LET baseProof == slice(sigmaProof, 0, SIGMA_PROOF_TRANSFER_SIZE)
        baseProofArray == chunksOf(baseProof, SIGMA_PROOF_TRANSFER_SIZE)
        auditorsPartLength == Len(sigmaProof) - SIGMA_PROOF_TRANSFER_SIZE
        auditorsPart == slice(sigmaProof, SIGMA_PROOF_TRANSFER_SIZE,
                              Len(sigmaProof))
        X7List == IF Len(sigmaProof) > SIGMA_PROOF_TRANSFER_SIZE
                  THEN chunksOf(auditorsPart, auditorsPartLength)
                  ELSE <<>>
    IN  StaticReturned(
            [alpha1 |-> baseProofArray[1],
             alpha2 |-> baseProofArray[2],
             alpha3List |-> slice(baseProofArray, 2, 2 + VEILED_BALANCE_CHUNK_SIZE),
             alpha4List |-> slice(baseProofArray, 6, 6 + VEILED_BALANCE_CHUNK_SIZE),
             alpha5 |-> baseProofArray[11],
             alpha6List |-> slice(baseProofArray, 11, 11 + VEILED_BALANCE_CHUNK_SIZE),
             X1 |-> baseProofArray[16],
             X2List |-> slice(baseProofArray, 16, 16 + VEILED_BALANCE_CHUNK_SIZE),
             X3List |-> slice(baseProofArray, 20, 20 + VEILED_BALANCE_CHUNK_SIZE),
             X4List |-> slice(baseProofArray, 24, 24 + VEILED_BALANCE_CHUNK_SIZE),
             X5 |-> baseProofArray[29],
             X6List |-> slice(baseProofArray, 29, Len(baseProofArray)),
             X7List |-> X7List])

DeserializeAnyMultiple(sigmaProof) ==
    IF Len(sigmaProof) < SIGMA_PROOF_TRANSFER_SIZE
    THEN StaticThrew("InvalidLength")
    ELSE deserializeFields(sigmaProof)

\* VeiledTransfer.deserializeSigmaProof(sigmaProof)
deserializeSigmaProof(sigmaProof) ==
    IF Len(sigmaProof) % PROOF_CHUNK_SIZE # 0
    THEN StaticThrew("NotMultiple")
    ELSE IF Len(sigmaProof) < SIGMA_PROOF_TRANSFER_SIZE
    THEN StaticThrew("InvalidLength")
    ELSE deserializeFields(sigmaProof)

\* a byte string of a length, filled from a seed so that no two chunks of it
\* are equal
WireBytes(length, seed) == [i \in 1..length |-> (i * seed + (i \div PROOF_CHUNK_SIZE)) % 256]

\* the lengths around the chunk size, the base size and each auditor's part
WireLengths ==
    {k * PROOF_CHUNK_SIZE + d :
        k \in {0, 1, 32} \cup (33..(33 + VEILED_BALANCE_CHUNK_SIZE * MaxWireAuditors)),
        d \in {0, 1, PROOF_CHUNK_SIZE - 1}}

WireStrings == {WireBytes(length, seed) : length \in WireLengths, seed \in 1..MaxSeed}

\* a field of PROOF_CHUNK_SIZE bytes that starts with its name's number in
\* VeiledTransferSigmaProof and its position in its list
WireField(name, j, seed) ==
    <<name, j>> \o [i \in 1..(PROOF_CHUNK_SIZE - 2) |-> (i * seed) % 256]

\* proofs with fields of PROOF_CHUNK_SIZE bytes, lists of
\* VEILED_BALANCE_CHUNK_SIZE fields and the X7 points of some auditors
WireProof(n, seed) ==
    LET four(name) == [j \in 1..VEILED_BALANCE_CHUNK_SIZE |-> WireField(name, j, seed)]
    IN  [alpha1 |-> WireField(1, 0, seed), alpha2 |-> WireField(2, 0, seed),
         alpha3List |-> four(3), alpha4List |-> four(4),
         alpha5 |-> WireField(5, 0, seed), alpha6List |-> four(6),
         X1 |-> WireField(7, 0, seed), X2List |-> four(8), X3List |-> four(9),
         X4List |-> four(10), X5 |-> WireField(11, 0, seed), X6List |-> four(12),
         X7List |-> [j \in 1..(VEILED_BALANCE_CHUNK_SIZE * n) |->
                        WireField(13, j, seed)]]

WireProofs == {WireProof(n, seed) : n \in 0..MaxWireAuditors, seed \in 1..MaxSeed}

\* a call of a static method; proof is the proof its argument was serialized
\* from, if it was
StaticCall(op, args, proof) == [op |-> op, args |-> args, proof |-> proof]

\* the argument is bytes received
NoProof == <<>>

InitWire ==
    /\ key = 1
    /\ x = NoCiphertext
    /\ xm = 0
    /\ xr = 1
    /\ call = Call("idle", 0, 0, 0, 0, 0, NoCiphertext)
    /\ ret = RetAmount(0, 0)
    /\ oracle = {}
    /\ vt = NoObject
    /\ chain = NoChain
    /\ proc = NoCall

\* VeiledTransfer.serializeSigmaProof(sigmaProof)
SerializeSigmaProof ==
    /\ Idle
    /\ \E sigmaProof \in WireProofs :
          /\ call' = StaticCall("serializeSigmaProof", sigmaProof, NoProof)
          /\ ret' = StaticReturned(serializeSigmaProof(sigmaProof))
    /\ UNCHANGED <<chain, proc, key, x, xm, xr, oracle, vt>>

\* VeiledTransfer.deserializeSigmaProof(bytes) of bytes received
DeserializeSigmaProof ==
    /\ Idle
    /\ \E bytes \in WireStrings :
          /\ call' = StaticCall("deserializeSigmaProof", bytes, NoProof)
          /\ ret' = deserializeSigmaProof(bytes)
    /\ UNCHANGED <<chain, proc, key, x, xm, xr, oracle, vt>>

\* VeiledTransfer.deserializeSigmaProof(VeiledTransfer.serializeSigmaProof(p))
DeserializeSerialized ==
    /\ call.op = "serializeSigmaProof"
    /\ call' = StaticCall("deserializeSigmaProof", ret.val, call.args)
    /\ ret' = deserializeSigmaProof(ret.val)
    /\ UNCHANGED <<chain, proc, key, x, xm, xr, oracle, vt>>

NextWire ==
    \/ SerializeSigmaProof
    \/ DeserializeSigmaProof
    \/ DeserializeSerialized
    \/ Resume

SpecWire == InitWire /\ [][NextWire]_vars

-----------------------------------------------------------------------------
(* Claims about the wire format, checked under SpecWire *)

\* C12: deserializeSigmaProof rejects every byte string whose length is not a
\* multiple of 32 or is below the base size of 33 fields, and returns for every
\* other one exactly (length - base) / 32 points in X7List.
C12_DeserializeLengths ==
    call.op = "deserializeSigmaProof" =>
        IF Len(call.args) % 32 # 0 \/ Len(call.args) < 33 * 32
        THEN ret.err # NoError
        ELSE /\ ret.err = NoError
             /\ Len(ret.val.X7List) * 32 = Len(call.args) - 33 * 32
             /\ \A j \in 1..Len(ret.val.X7List) : Len(ret.val.X7List[j]) = 32

\* deserializeSigmaProof has returned the X7 points of an auditor from bytes
\* received
C12_Witness ==
    /\ call.op = "deserializeSigmaProof"
    /\ call.proof = NoProof
    /\ ret.err = NoError
    /\ Len(ret.val.X7List) = VEILED_BALANCE_CHUNK_SIZE

\* 32 bytes of sigmaProof from the 0-based field position k
wireFieldAt(bytes, k) == SubSeq(bytes, 32 * k + 1, 32 * k + 32)

\* C13: serializeSigmaProof emits alpha1, alpha2, alpha3[0..3], alpha4[0..3],
\* alpha5, alpha6[0..3], X1, X2[0..3], X3[0..3], X4[0..3], X5, X6[0..3], X7 in
\* this order, and deserializeSigmaProof of its output is the proof, field by
\* field.
C13_WireRoundTrip ==
    /\ call.op = "serializeSigmaProof" =>
           LET p == call.args
               b == ret.val
           IN  /\ ret.err = NoError
               /\ Len(b) = 32 * (33 + Len(p.X7List))
               /\ wireFieldAt(b, 0) = p.alpha1
               /\ wireFieldAt(b, 1) = p.alpha2
               /\ \A j \in 1..4 :
                      /\ wireFieldAt(b, 1 + j) = p.alpha3List[j]
                      /\ wireFieldAt(b, 5 + j) = p.alpha4List[j]
                      /\ wireFieldAt(b, 10 + j) = p.alpha6List[j]
                      /\ wireFieldAt(b, 15 + j) = p.X2List[j]
                      /\ wireFieldAt(b, 19 + j) = p.X3List[j]
                      /\ wireFieldAt(b, 23 + j) = p.X4List[j]
                      /\ wireFieldAt(b, 28 + j) = p.X6List[j]
               /\ wireFieldAt(b, 10) = p.alpha5
               /\ wireFieldAt(b, 15) = p.X1
               /\ wireFieldAt(b, 28) = p.X5
               /\ \A j \in 1..Len(p.X7List) :
                      wireFieldAt(b, 32 + j) = p.X7List[j]
    /\ (call.op = "deserializeSigmaProof" /\ call.proof # NoProof) =>
           (ret.err = NoError /\ ret.val = call.proof)

\* a proof with the X7 points of two auditors has been serialized and
\* deserialized
C13_Witness ==
    /\ call.op = "deserializeSigmaProof"
    /\ call.proof # NoProof
    /\ Len(call.proof.X7List) = 2 * VEILED_BALANCE_CHUNK_SIZE
    /\ ret.err = NoError

-----------------------------------------------------------------------------
(* Claims about the builder's input checks, checked under SpecTransfer *)

\* the errors of the input checks of genSigmaProof
InputErrors == {"AmountTooLarge", "RandomnessLength"}

\* the amount or the randomness argument is one the builder has to reject
InvalidInput(amountToTransfer, randomness) ==
    \/ amountToTransfer \notin 0..(2 ^ (2 * ChunkBitsBound) - 1)
    \/ randomness.given /\ Len(randomness.list) # VEILED_BALANCE_CHUNK_SIZE

\* C14: the Transfer builder rejects with an input error every amount outside
\* [0, 2^64), here outside two chunks, and every randomness vector whose length
\* is not 4: the constructor accepts it or throws an input error, and
\* genSigmaProof throws an input error.
C14_RejectsInvalidInput ==
    /\ (/\ call.op = "constructor"
        /\ InvalidInput(call.args.amountToTransfer, call.args.randomness))
           => ret.err \in InputErrors \cup {NoError}
    /\ (/\ call.op = "genSigmaProof"
        /\ call.this.amountToTransfer \notin 0..(2 ^ (2 * ChunkBitsBound) - 1))
           => ret.err \in InputErrors

\* C15: a Transfer sigma verifier raises an input error whenever the number of
\* auditor-D entries differs from the number of auditor public keys or from
\* the number of auditors whose X points the proof carries; here of
\* VeiledTransfer.verifySigmaProof.
C15_AuditorCountMismatch ==
    (/\ call.op = "verifySigmaProof"
     /\ LET opts == call.args.opts
            publicKeys == IF opts.hasAuditors THEN opts.publicKeys ELSE <<>>
            decryptionKeys == IF opts.hasAuditors THEN opts.decryptionKeys ELSE <<>>
        IN  \/ Len(decryptionKeys) # Len(publicKeys)
            \/ Len(call.args.sigmaProof.X7List)
                   # VEILED_BALANCE_CHUNK_SIZE * Len(decryptionKeys))
        => ret.err = "AuditorsMismatch"

-----------------------------------------------------------------------------
(* Claims about the builder's ciphertexts, checked under SpecTransfer *)

\* the amount a key holder reads from a chunk-wise encryption
decryptChunks(list, privateKey) ==
    chunksToAmount([i \in 1..Len(list) |->
                       decryptWithPK(list[i], privateKey, NoRange).val])

\* C16: after a successful initialization with balance v and amount a, the
\* chunk-wise decryption of encryptedActualBalanceAfterTransfer under the
\* sender's key recombines to v - a and that of encryptedAmountByRecipient under
\* the recipient's key to a.
C16_BalanceConservation ==
    (call.op = "init" /\ ValidTransfer(call.this)) =>
        /\ ret.err = NoError
        /\ Has(vt, "encryptedActualBalanceAfterTransfer")
        /\ Has(vt, "encryptedAmountByRecipient")
        /\ decryptChunks(vt.encryptedActualBalanceAfterTransfer, key)
               = xm - vt.amountToTransfer
        /\ decryptChunks(vt.encryptedAmountByRecipient, Receiver(key))
               = vt.amountToTransfer

-----------------------------------------------------------------------------
(* VeiledCoin.safeRotateVBKey (src/api/veiledCoin.ts)                      *)
(*                                                                         *)
(* The call is a sequence of awaits on the node: a view, a transaction     *)
(* build, a submission, a wait.  Each await is one step of `proc`; any of  *)
(* them can reject, which ends the call with that rejection.  The ledger   *)
(* executes submitted transactions on its own, in order, and each either   *)
(* commits with success or aborts.  An encrypted balance is represented by *)
(* the amount it encrypts.                                                 *)

ROLLOVER_AND_FREEZE == "rollover_pending_balance_and_freeze"
ROTATE == "rotate_encryption_key"
ROTATE_AND_UNFREEZE == "rotate_encryption_key_and_unfreeze"

RotateFunctions == {ROTATE, ROTATE_AND_UNFREEZE}

\* buildRolloverPendingBalanceTxPayload with withFreezeBalance: true
buildRolloverPendingBalanceTxPayload(withFreezeBalance) ==
    [function |-> IF withFreezeBalance THEN ROLLOVER_AND_FREEZE
                                       ELSE "rollover_pending_balance",
     balance  |-> 0]

\* buildRotateVBKeyTxPayload: the proof is made over args.currEncryptedBalance
buildRotateVBKeyTxPayload(args) ==
    [function |-> IF args.withUnfreezeBalance THEN ROTATE_AND_UNFREEZE ELSE ROTATE,
     balance  |-> args.currEncryptedBalance]

NoTransaction == [function |-> "none", balance |-> 0]

\* the test of the committed response of the freeze transaction
FreezeAlwaysAccepted(response) == FALSE

freezeFailed(response) == response # "success"

\* the points of safeRotateVBKey at which it awaits the node
AwaitPoints ==
    {"isBalanceFrozen", "rolloverPendingBalance", "submitRollover", "waitRollover",
     "getBalance", "rotateVBKey", "submitRotation", "waitRotation"}

RotateArgs ==
    [currEncryptedBalance : 0..MaxBalance, withUnfreezeBalance : BOOLEAN]

InitRotate ==
    /\ key = 1
    /\ x = NoCiphertext
    /\ xm = 0
    /\ xr = 0
    /\ call = [op |-> "none"]
    /\ ret = [err |-> NoError]
    /\ oracle = {}
    /\ vt = NoObject
    /\ \E frozen \in BOOLEAN, actual \in 0..MaxBalance, pending \in 0..MaxBalance :
          chain = [frozen |-> frozen, actual |-> actual, pending |-> pending, txs |-> <<>>]
    /\ \E args \in RotateArgs :
          proc = [pc |-> "isBalanceFrozen", args |-> args, isFrozen |-> "unread",
                  currEncryptedBalance |-> args.currEncryptedBalance,
                  transaction |-> NoTransaction, hash |-> 0,
                  response |-> "none", error |-> NoError]

\* the i-th submitted transaction, 1-based: the hash of a transaction is its index
Submit(transaction) ==
    Append(chain.txs, [function |-> transaction.function,
                       balance  |-> transaction.balance,
                       status   |-> "pending"])

\* line 372: the is_frozen view; line 377 copies the caller's ciphertexts
IsBalanceFrozen ==
    /\ proc.pc = "isBalanceFrozen"
    /\ proc' = [proc EXCEPT
                  !.isFrozen = IF chain.frozen THEN "true" ELSE "false",
                  !.currEncryptedBalance = proc.args.currEncryptedBalance,
                  !.pc = IF chain.frozen THEN "rotateVBKey" ELSE "rolloverPendingBalance"]
    /\ UNCHANGED <<key, x, xm, xr, call, ret, oracle, vt, chain>>

\* line 379: build the rollover transaction with withFreezeBalance: true
RolloverPendingBalance ==
    /\ proc.pc = "rolloverPendingBalance"
    /\ proc' = [proc EXCEPT !.transaction = buildRolloverPendingBalanceTxPayload(TRUE),
                            !.pc = "submitRollover"]
    /\ UNCHANGED <<key, x, xm, xr, call, ret, oracle, vt, chain>>

\* line 385: signAndSubmitTransaction of the rollover
SubmitRollover ==
    /\ proc.pc = "submitRollover"
    /\ chain' = [chain EXCEPT !.txs = Submit(proc.transaction)]
    /\ proc' = [proc EXCEPT !.hash = Len(chain.txs) + 1, !.pc = "waitRollover"]
    /\ UNCHANGED <<key, x, xm, xr, call, ret, oracle, vt>>

\* lines 390..396: waitForTransaction resolves once the transaction has been
\* executed; a response with success = false makes the call throw
WaitRollover ==
    /\ proc.pc = "waitRollover"
    /\ chain.txs[proc.hash].status # "pending"
    /\ LET response == chain.txs[proc.hash].status
       IN  proc' = [proc EXCEPT
                      !.response = response,
                      !.error = IF freezeFailed(response) THEN "Failed to freeze balance"
                                                          ELSE NoError,
                      !.pc = IF freezeFailed(response) THEN "thrown" ELSE "getBalance"]
    /\ UNCHANGED <<key, x, xm, xr, call, ret, oracle, vt, chain>>

\* lines 398..403 without line 403: the balances are read and not used
GetBalanceIgnored ==
    /\ proc.pc = "getBalance"
    /\ proc' = [proc EXCEPT !.pc = "rotateVBKey"]
    /\ UNCHANGED <<key, x, xm, xr, call, ret, oracle, vt, chain>>

\* lines 398..403: read the balances again and take the actual one
GetBalance ==
    /\ proc.pc = "getBalance"
    /\ proc' = [proc EXCEPT !.currEncryptedBalance = chain.actual, !.pc = "rotateVBKey"]
    /\ UNCHANGED <<key, x, xm, xr, call, ret, oracle, vt, chain>>

\* line 406: rotateVBKey({...args, currEncryptedBalance})
RotateVBKey ==
    /\ proc.pc = "rotateVBKey"
    /\ proc' = [proc EXCEPT
                  !.transaction = buildRotateVBKeyTxPayload(
                      [proc.args EXCEPT !.currEncryptedBalance = proc.currEncryptedBalance]),
                  !.pc = "submitRotation"]
    /\ UNCHANGED <<key, x, xm, xr, call, ret, oracle, vt, chain>>

\* line 411: signAndSubmitTransaction of the rotation
SubmitRotation ==
    /\ proc.pc = "submitRotation"
    /\ chain' = [chain EXCEPT !.txs = Submit(proc.transaction)]
    /\ proc' = [proc EXCEPT !.hash = Len(chain.txs) + 1, !.pc = "waitRotation"]
    /\ UNCHANGED <<key, x, xm, xr, call, ret, oracle, vt>>

\* line 416: the call returns what waitForTransaction resolves to
WaitRotation ==
    /\ proc.pc = "waitRotation"
    /\ chain.txs[proc.hash].status # "pending"
    /\ proc' = [proc EXCEPT !.response = chain.txs[proc.hash].status, !.pc = "returned"]
    /\ UNCHANGED <<key, x, xm, xr, call, ret, oracle, vt, chain>>

\* any await can reject (node unreachable, build failure, timeout)
Reject ==
    /\ proc.pc \in AwaitPoints
    /\ proc' = [proc EXCEPT !.error = "rejected", !.pc = "thrown"]
    /\ UNCHANGED <<key, x, xm, xr, call, ret, oracle, vt, chain>>

\* the ledger executes the oldest pending transaction
Execute ==
    \E i \in 1..Len(chain.txs) :
        /\ chain.txs[i].status = "pending"
        /\ \A j \in 1..(i - 1) : chain.txs[j].status # "pending"
        /\ \E success \in BOOLEAN :
              LET tx == chain.txs[i]
                  executed == [chain EXCEPT !.txs[i].status =
                                               IF success THEN "success" ELSE "failed"]
              IN  chain' =
                    IF ~success THEN executed
                    ELSE IF tx.function = ROLLOVER_AND_FREEZE
                         THEN [executed EXCEPT !.actual = chain.actual + chain.pending,
                                               !.pending = 0,
                                               !.frozen = TRUE]
                    ELSE IF tx.function = ROTATE_AND_UNFREEZE
                         THEN [executed EXCEPT !.frozen = FALSE]
                    ELSE executed
        /\ UNCHANGED <<key, x, xm, xr, call, ret, oracle, vt, proc>>

NextRotate ==
    \/ IsBalanceFrozen
    \/ RolloverPendingBalance
    \/ SubmitRollover
    \/ WaitRollover
    \/ GetBalance
    \/ RotateVBKey
    \/ SubmitRotation
    \/ WaitRotation
    \/ Reject
    \/ Execute

SpecRotate == InitRotate /\ [][NextRotate]_vars

RotationSubmitted ==
    \E i \in 1..Len(chain.txs) : chain.txs[i].function \in RotateFunctions

\* the freeze transaction this call submitted, with the given status
FreezeIs(status) ==
    \E i \in 1..Len(chain.txs) :
        /\ chain.txs[i].function = ROLLOVER_AND_FREEZE
        /\ chain.txs[i].status = status

\* C17: safeRotateVBKey submits the rotation transaction only after
\* isBalanceFrozen returned true, or after a rollover-with-freeze transaction
\* was submitted, waited for and committed with success; when that freeze
\* transaction commits without success the call throws (it is waiting for the
\* response or has thrown) and no rotation transaction is submitted.
C17_RotatesOnlyFrozen ==
    /\ RotationSubmitted =>
          \/ proc.isFrozen = "true"
          \/ (FreezeIs("success") /\ proc.isFrozen = "false")
    /\ (RotationSubmitted /\ proc.isFrozen = "false") =>
          \E i \in 1..Len(chain.txs) :
              /\ chain.txs[i].function = ROLLOVER_AND_FREEZE
              /\ chain.txs[i].status = "success"
              /\ \A j \in 1..i : chain.txs[j].function \notin RotateFunctions
    /\ FreezeIs("failed") =>
          /\ ~RotationSubmitted
          /\ proc.pc \in {"waitRollover", "thrown"}
          /\ (proc.pc = "thrown" /\ proc.response = "failed")
                 => proc.error = "Failed to freeze balance"

\* the rotation was submitted after a freeze transaction committed with success
C17_Witness ==
    /\ RotationSubmitted
    /\ proc.isFrozen = "false"
    /\ proc.response = "success"
    /\ FreezeIs("success")

-----------------------------------------------------------------------------
(* The cost of decryptWithPK, checked under Spec *)

\* C18: decryptWithPK with the window lo, hi returns or throws after at most
\* hi - lo + 1 comparisons of mH with a candidate, for every ciphertext, every
\* key (the right one or not) and every window, lo > hi included.
C18_ComparisonBound ==
    call.op = "decrypt" => ret.cmps <= call.hi - call.lo + 1

-----------------------------------------------------------------------------
(* The randomness of a constructed builder, checked under SpecTransfer *)

\* C19: the constructor of a VeiledTransfer with valid arguments completes
\* (it does not read randomness before it is assigned) and leaves, with r the
\* list in the randomness field (the caller's when given), for every chunk i
\* the recipient ciphertext (a[i] G + r[i] H, r[i] P_recipient) and for every
\* auditor k the value D_aud[k][i] = r[i] P_auditor[k].
C19_SharedRandomness ==
    (call.op = "constructor" /\ ValidArgs(call.args)) =>
        /\ ret.err = NoError
        /\ Has(vt, "randomness")
        /\ call.args.randomness.given => vt.randomness = call.args.randomness.list
        /\ Len(vt.randomness) = VEILED_BALANCE_CHUNK_SIZE
        /\ Has(vt, "encryptedAmountByRecipient")
        /\ Len(vt.encryptedAmountByRecipient) = VEILED_BALANCE_CHUNK_SIZE
        /\ \A i \in 1..VEILED_BALANCE_CHUNK_SIZE :
              LET a == amountToChunks(call.args.amountToTransfer,
                                      VEILED_BALANCE_CHUNK_SIZE)[i]
                  r == vt.randomness[i]
              IN  /\ vt.encryptedAmountByRecipient[i].C
                         = (a * BASE + r * H_RISTRETTO) % CURVE_n
                  /\ vt.encryptedAmountByRecipient[i].D
                         = (r * call.args.recipientPublicKey) % CURVE_n
        /\ Has(vt, "auditorsDList")
        /\ Len(vt.auditorsDList) = Len(call.args.auditorPublicKeys)
        /\ \A k \in 1..Len(call.args.auditorPublicKeys) :
              \A i \in 1..VEILED_BALANCE_CHUNK_SIZE :
                  vt.auditorsDList[k][i]
                      = (vt.randomness[i] * call.args.auditorPublicKeys[k]) % CURVE_n

-----------------------------------------------------------------------------
(* The commitments of the range proofs, checked under SpecTransfer *)

\* C20: genRangeProof on a builder of a valid transfer returns, for every
\* chunk i, a proof about the commitment verifyRangeProof checks it against:
\* for the amount a[i] G + r[i] H = C of E[i] with the bases G and H, for the
\* new balance c'[i] G + s D'[i] = C'[i] with the bases G and D'[i].
C20_RangeProofBinding ==
    (call.op = "genRangeProof" /\ ValidTransfer(call.this)) =>
        /\ ret.err = NoError
        /\ Len(ret.val.rangeProofAmount) = VEILED_BALANCE_CHUNK_SIZE
        /\ Len(ret.val.rangeProofNewBalance) = VEILED_BALANCE_CHUNK_SIZE
        /\ \A i \in 1..VEILED_BALANCE_CHUNK_SIZE :
              LET proof == ret.val.rangeProofAmount[i]
                  E == vt.encryptedAmountByRecipient[i]
              IN  /\ proof.commitment = toRawBytes(E.C)
                  /\ proof.valBase = toRawBytes(BASE)
                  /\ proof.randBase = toRawBytes(H_RISTRETTO)
                  /\ verifyRangeZKP(proof, toRawBytes(E.C), toRawBytes(BASE),
                                    toRawBytes(H_RISTRETTO))
        /\ \A i \in 1..VEILED_BALANCE_CHUNK_SIZE :
              LET proof == ret.val.rangeProofNewBalance[i]
                  after == vt.encryptedActualBalanceAfterTransfer[i]
              IN  /\ proof.commitment = toRawBytes(after.C)
                  /\ proof.valBase = toRawBytes(BASE)
                  /\ proof.randBase = toRawBytes(after.D)
                  /\ verifyRangeZKP(proof, toRawBytes(after.C), toRawBytes(BASE),
                                    toRawBytes(after.D))

-----------------------------------------------------------------------------
(* The shape of what genRangeProof returns, checked under SpecTransfer *)

\* C21: genRangeProof on a builder of a valid transfer returns one proof per
\* backend call, 4 for the amount and 4 for the new balance, in chunk order:
\* the i-th amount proof is about the i-th amount chunk with the bases G and H,
\* the i-th new-balance proof about the i-th chunk of the balance after the
\* transfer with the bases G and D'[i]; every proof has the default bit width.
C21_EightProofs ==
    (call.op = "genRangeProof" /\ ValidTransfer(call.this)) =>
        /\ ret.err = NoError
        /\ Len(ret.val.rangeProofAmount) = VEILED_BALANCE_CHUNK_SIZE
        /\ Len(ret.val.rangeProofNewBalance) = VEILED_BALANCE_CHUNK_SIZE
        /\ \A i \in 1..VEILED_BALANCE_CHUNK_SIZE :
              ret.val.rangeProofAmount[i] =
                  generateRangeZKP(
                      amountToChunks(vt.amountToTransfer, VEILED_BALANCE_CHUNK_SIZE)[i],
                      vt.randomness[i], toRawBytes(BASE),
                      toRawBytes(H_RISTRETTO)).proof
        /\ \A i \in 1..VEILED_BALANCE_CHUNK_SIZE :
              ret.val.rangeProofNewBalance[i] =
                  generateRangeZKP(
                      amountToChunks(xm - vt.amountToTransfer,
                                     VEILED_BALANCE_CHUNK_SIZE)[i],
                      vt.twistedEd25519PrivateKey, toRawBytes(BASE),
                      toRawBytes(vt.encryptedActualBalanceAfterTransfer[i].D)).proof
        /\ \A i \in 1..VEILED_BALANCE_CHUNK_SIZE :
              /\ ret.val.rangeProofAmount[i].bits = DefaultBits
              /\ ret.val.rangeProofNewBalance[i].bits = DefaultBits

-----------------------------------------------------------------------------
(* genSigmaProof and genRangeProof on one builder, checked under           *)
(* SpecTransfer.  Neither method has an assignment to a field of this, so  *)
(* a call that is suspended at an await sees the fields it saw at its      *)
(* start; each call is one step of the model.                              *)

GenOps == {"genSigmaProof", "genRangeProof"}

-----------------------------------------------------------------------------
(* What a caller of genRangeProof receives, checked under SpecTransfer *)

-----------------------------------------------------------------------------
(* The balance init() recovers, checked under SpecTransfer *)

\* C24: init() on a builder of the caller's key and of a chunk-wise encryption
\* of the balance, every chunk within the chunk range, decrypts every chunk to
\* its value: it does not fail with the out-of-range error of decryptWithPK,
\* and the balance it goes on with is the balance that was encrypted.
C24_InitRecoversBalance ==
    (call.op = "init" /\ ValidTransfer(call.this)) =>
        /\ ret.err # "DecryptRange"
        /\ \A i \in 1..Len(call.this.encryptedActualBalance) :
              LET d == decryptWithPK(call.this.encryptedActualBalance[i],
                                     call.this.twistedEd25519PrivateKey,
                                     Range(0, InitDecryptEnd))
              IN  /\ d.err = NoError
                  /\ d.val = amountToChunks(xm, VEILED_BALANCE_CHUNK_SIZE)[i]
        /\ Has(vt, "balanceAfterTransfer")
        /\ vt.balanceAfterTransfer + vt.amountToTransfer = xm

-----------------------------------------------------------------------------
(* The transfer of the whole balance, checked under SpecTransfer *)

\* C25: on a builder whose amount equals the balance (the balance after the
\* transfer is 0), genSigmaProof and genRangeProof each return proofs: neither
\* fails.
C25_FullBalanceTransfer ==
    (/\ call.op \in GenOps
     /\ ValidTransfer(call.this)
     /\ call.this.amountToTransfer = xm)
        => (ret.err = NoError /\ ret.val # <<>>)

-----------------------------------------------------------------------------
(* Transfers above the balance, checked under SpecTransfer *)

\* the builder's methods that produce ciphertexts or proofs
ProducingOps == {"init", "genSigmaProof", "genRangeProof"}

-----------------------------------------------------------------------------
(* The derived fields of an initialized builder, checked under SpecTransfer *)

\* C27: after init() on a builder of a valid transfer the builder is
\* initialized, chunkedBalanceAfterTransfer is the 4-chunk split of
\* balanceAfterTransfer, and the ciphertexts genSigmaProof makes of these chunks
\* with the builder's randomness are encryptedActualBalanceAfterTransfer, the
\* ciphertexts verifySigmaProof absorbs.
C27_DerivedFieldsAgree ==
    (call.op = "init" /\ ValidTransfer(call.this)) =>
        /\ vt.isInitialized
        /\ Has(vt, "balanceAfterTransfer")
        /\ Has(vt, "chunkedBalanceAfterTransfer")
        /\ vt.chunkedBalanceAfterTransfer
               = amountToChunks(vt.balanceAfterTransfer, VEILED_BALANCE_CHUNK_SIZE)
        /\ Has(vt, "encryptedActualBalanceAfterTransfer")
        /\ Has(vt, "randomness")
        /\ \A i \in 1..VEILED_BALANCE_CHUNK_SIZE :
              vt.encryptedActualBalanceAfterTransfer[i]
                  = Ciphertext(encryptWithPK(vt.chunkedBalanceAfterTransfer[i],
                                             publicKey(vt.twistedEd25519PrivateKey),
                                             vt.randomness[i]))

-----------------------------------------------------------------------------
(* The verdict of verifyRangeProof, checked under SpecTransfer *)

\* C28: verifyRangeProof answers with a verdict, true or false; the verdict is
\* true only if 4 amount proofs and 4 new-balance proofs were supplied and the
\* backend accepts each of them against the builder's ciphertexts, so it is
\* false for empty and for shorter lists and whenever the backend rejects one.
C28_RangeVerdict ==
    call.op = "verifyRangeProof" =>
        /\ ret.err = NoError
        /\ ret.val \in BOOLEAN
        /\ ret.val =
              /\ Len(call.args.rangeProofAmount) = VEILED_BALANCE_CHUNK_SIZE
              /\ Len(call.args.rangeProofNewBalance) = VEILED_BALANCE_CHUNK_SIZE
              /\ \A i \in 1..VEILED_BALANCE_CHUNK_SIZE :
                    /\ verifyRangeZKP(call.args.rangeProofAmount[i],
                                      toRawBytes(vt.encryptedAmountByRecipient[i].C),
                                      toRawBytes(BASE), toRawBytes(H_RISTRETTO))
                    /\ verifyRangeZKP(
                           call.args.rangeProofNewBalance[i],
                           toRawBytes(vt.encryptedActualBalanceAfterTransfer[i].C),
                           toRawBytes(BASE),
                           toRawBytes(vt.encryptedActualBalanceAfterTransfer[i].D))

-----------------------------------------------------------------------------
(* VeiledCoin.safeRolloverPendingVB (src/api/veiledCoin.ts)                *)
(*                                                                         *)
(* The call awaits the is_normalized view, the two balance views, the      *)
(* decryption of the actual balance and the normalization builder; each    *)
(* await is one step of `proc` and any of them can reject.  Here the       *)
(* ledger's balances are chunk-wise ciphertexts under the caller's key;    *)
(* other accounts can pay into the pending balance at any time.            *)

NORMALIZE == "normalize"
ROLLOVER == "rollover_pending_balance"

\* the randomness the ledger's actual and pending ciphertexts were made with
ActualRand == 1
PendingRand == 2

\* VeiledAmount.fromEncrypted(encrypted, decryptionKey).amount
fromEncrypted(encrypted, decryptionKey) == decryptChunks(encrypted, decryptionKey)

\* buildNormalizationTxPayload(args): the payload of a normalization of
\* args.unnormilizedEncryptedBalance to the chunks of args.balanceAmount
buildNormalizationTxPayload(args) ==
    [function |-> NORMALIZE,
     unnormilizedEncryptedBalance |-> args.unnormilizedEncryptedBalance,
     balanceAmount |-> args.balanceAmount]

\* buildRolloverPendingBalanceTxPayload(args) as a member of txList
rolloverTx(args) ==
    [function |-> buildRolloverPendingBalanceTxPayload(args.withFreezeBalance).function,
     unnormilizedEncryptedBalance |-> <<>>,
     balanceAmount |-> 0]

\* the points of safeRolloverPendingVB at which it awaits
RolloverAwaitPoints ==
    {"isUserBalanceNormalized", "getBalance", "fromEncrypted",
     "buildNormalizationTxPayload"}

InitRollover ==
    /\ key \in Keys
    /\ x = NoCiphertext
    /\ xm = 0
    /\ xr = 0
    /\ call = [op |-> "none"]
    /\ ret = [err |-> NoError]
    /\ oracle = {}
    /\ vt = NoObject
    /\ \E normalized \in BOOLEAN, actual \in 0..MaxBalance, pending \in 0..MaxBalance :
          chain = [normalized |-> normalized,
                   actual |-> encryptChunks(actual, publicKey(key), ActualRand),
                   pending |-> encryptChunks(pending, publicKey(key), PendingRand)]
    /\ \E withFreezeBalance \in BOOLEAN :
          proc = [pc |-> "isUserBalanceNormalized",
                  args |-> [withFreezeBalance |-> withFreezeBalance,
                            decryptionKey |-> key],
                  isNormalized |-> "unread",
                  aliceBalances |-> [pending |-> <<>>, actual |-> <<>>],
                  aliceVB |-> 0,
                  txList |-> <<>>,
                  error |-> NoError]

\* line 194: the is_normalized view
IsUserBalanceNormalized ==
    /\ proc.pc = "isUserBalanceNormalized"
    /\ proc' = [proc EXCEPT
                  !.isNormalized = IF chain.normalized THEN "true" ELSE "false",
                  !.pc = IF chain.normalized THEN "rollover" ELSE "getBalance"]
    /\ UNCHANGED <<key, x, xm, xr, call, ret, oracle, vt, chain>>

\* line 200: getBalance, the pending and the actual balance of the sender
GetBalances ==
    /\ proc.pc = "getBalance"
    /\ proc' = [proc EXCEPT
                  !.aliceBalances = [pending |-> chain.pending, actual |-> chain.actual],
                  !.pc = "fromEncrypted"]
    /\ UNCHANGED <<key, x, xm, xr, call, ret, oracle, vt, chain>>

\* line 205: aliceVB = VeiledAmount.fromEncrypted(aliceBalances.actual, key)
FromEncrypted ==
    /\ proc.pc = "fromEncrypted"
    /\ proc' = [proc EXCEPT
                  !.aliceVB = fromEncrypted(proc.aliceBalances.actual,
                                            proc.args.decryptionKey),
                  !.pc = "buildNormalizationTxPayload"]
    /\ UNCHANGED <<key, x, xm, xr, call, ret, oracle, vt, chain>>

\* lines 207-214: build the normalization payload and push it
BuildNormalization ==
    /\ proc.pc = "buildNormalizationTxPayload"
    /\ LET normalizationTx ==
               buildNormalizationTxPayload(
                   [unnormilizedEncryptedBalance |-> proc.aliceBalances.pending,
                    balanceAmount |-> proc.aliceVB])
       IN  proc' = [proc EXCEPT !.txList = Append(@, normalizationTx),
                                !.pc = "rollover"]
    /\ UNCHANGED <<key, x, xm, xr, call, ret, oracle, vt, chain>>

\* lines 217-221: push the rollover payload and return the list
ReturnTxList ==
    /\ proc.pc = "rollover"
    /\ proc' = [proc EXCEPT !.txList = Append(@, rolloverTx(proc.args)),
                            !.pc = "returned"]
    /\ UNCHANGED <<key, x, xm, xr, call, ret, oracle, vt, chain>>

\* an awaited promise rejects
RolloverReject ==
    /\ proc.pc \in RolloverAwaitPoints
    /\ proc' = [proc EXCEPT !.error = "rejected", !.pc = "thrown"]
    /\ UNCHANGED <<key, x, xm, xr, call, ret, oracle, vt, chain>>

\* another account pays into the pending balance
Deposit ==
    /\ proc.pc \in RolloverAwaitPoints
    /\ fromEncrypted(chain.pending, key) < MaxBalance
    /\ chain' = [chain EXCEPT
                   !.pending = encryptChunks(fromEncrypted(chain.pending, key) + 1,
                                             publicKey(key), PendingRand)]
    /\ UNCHANGED <<key, x, xm, xr, call, ret, oracle, vt, proc>>

NextRollover ==
    \/ IsUserBalanceNormalized
    \/ GetBalances
    \/ FromEncrypted
    \/ BuildNormalization
    \/ ReturnTxList
    \/ RolloverReject
    \/ Deposit

SpecRollover == InitRollover /\ [][NextRollover]_vars

\* C29: safeRolloverPendingVB returns [rollover] when the balance is
\* normalized and [normalization, rollover] when it is not, and the
\* normalization payload is for one balance: its balanceAmount is the
\* decryption of its unnormilizedEncryptedBalance under the caller's key.
C29_NormalizationOfOneBalance ==
    proc.pc = "returned" =>
        /\ proc.isNormalized = "true" =>
               (Len(proc.txList) = 1 /\ proc.txList[1] = rolloverTx(proc.args))
        /\ proc.isNormalized = "false" =>
               /\ Len(proc.txList) = 2
               /\ proc.txList[2] = rolloverTx(proc.args)
               /\ proc.txList[1].function = NORMALIZE
               /\ proc.txList[1].balanceAmount
                      = fromEncrypted(proc.txList[1].unnormilizedEncryptedBalance,
                                      proc.args.decryptionKey)

-----------------------------------------------------------------------------
(* The balance safeRotateVBKey rotates, checked under SpecRotate *)

\* a rollover-with-freeze transaction has been submitted
RolloverSubmitted ==
    \E j \in 1..Len(chain.txs) : chain.txs[j].function = ROLLOVER_AND_FREEZE

\* the rotation payloads are over the right balance
RotatedBalance ==
    /\ proc.isFrozen = "true" => ~RolloverSubmitted
    /\ \A i \in 1..Len(chain.txs) :
          chain.txs[i].function \in RotateFunctions =>
              IF proc.isFrozen = "true"
              THEN chain.txs[i].balance = proc.args.currEncryptedBalance
              ELSE /\ FreezeIs("success")
                   /\ chain.txs[i].balance = chain.actual

\* C30: when safeRotateVBKey had to freeze, the rotation it submits is built
\* over the actual balance the ledger holds after the rollover-with-freeze
\* transaction committed, not over the caller's ciphertexts; when the balance
\* was frozen already it submits no rollover and builds the rotation over the
\* caller's ciphertexts; no step changes the caller's arguments.
C30_RotationOverLedgerBalance ==
    /\ []RotatedBalance
    /\ [][proc'.args = proc.args]_vars

\* the rotation was submitted after a freeze, over a ledger balance that
\* differs from the ciphertexts the caller supplied
C30_Witness ==
    /\ proc.isFrozen = "false"
    /\ \E i \in 1..Len(chain.txs) :
          /\ chain.txs[i].function \in RotateFunctions
          /\ chain.txs[i].balance = chain.actual
          /\ chain.txs[i].balance # proc.args.currEncryptedBalance

====
